---- MODULE Spec2Model ----
(***************************************************************************)
(* Model of rd_burndown's snapshot engine (src/rd_burndown/snapshot.py):   *)
(* the effort resolver (_calculate_effective_estimates and its helpers)    *)
(* and the two rollups (_calculate_snapshot_metrics,                       *)
(* _calculate_assignee_snapshots).                                         *)
(*                                                                         *)
(* Hours are Python floats (IEEE-754 binary64, round to nearest, ties to   *)
(* even).  They are modelled as binary floating point numbers with a       *)
(* significand of Prec bits instead of 53: a value is a non-negative       *)
(* integer count of a fixed quantum, and every addition and subtraction    *)
(* is rounded to Prec significant bits.  None is modelled by NULL.         *)
(***************************************************************************)
EXTENDS Integers, Sequences, FiniteSets, TLC

\* ---------------------------------------------------------------- bounds
\* number of issue ids in the hierarchy-centred working sets
MaxIssues == 3
\* number of issues in the rollup-centred working sets
AggIssues == 3
\* significand width of the modelled floats (53 in binary64)
Prec == 3
\* number of consecutive dates of the calendar
MaxDays == 10
\* number of issue rows in the store
StoreIssues == 2
\* number of create_snapshot invocations in a behaviour
MaxRuns == 2
\* number of syncs in a behaviour
MaxSyncs == 1

\* Python None / SQL NULL
NULL == -1

\* ------------------------------------------------- floating point hours
RECURSIVE Pow2(_)
Pow2(n) == IF n = 0 THEN 1 ELSE 2 * Pow2(n - 1)

\* least e such that x div 2^e has at most Prec bits
RECURSIVE Exponent(_, _)
Exponent(x, e) == IF x \div Pow2(e) < Pow2(Prec) THEN e ELSE Exponent(x, e + 1)

\* round to nearest representable value, ties to even
Round(x) ==
    LET e == Exponent(x, 0)
        q == x \div Pow2(e)
        r == x % Pow2(e)
        up == (2 * r > Pow2(e)) \/ (2 * r = Pow2(e) /\ q % 2 = 1)
    IN  IF up THEN (q + 1) * Pow2(e) ELSE q * Pow2(e)

\* float + float
FAdd(a, b) == Round(a + b)

\* float - float (only used with a >= b)
FSub(a, b) == Round(a - b)

\* Python sum(list): 0 + x1 + x2 + ... from left to right
RECURSIVE FSumFrom(_, _, _)
FSumFrom(s, k, acc) ==
    IF k > Len(s) THEN acc ELSE FSumFrom(s, k + 1, FAdd(acc, s[k]))

FSum(s) == FSumFrom(s, 1, 0)

\* Python truthiness of an optional number: None and 0 are falsy
Truthy(x) == x # NULL /\ x # 0

\* dict[key] = value
Put(f, key, value) == [k \in (DOMAIN f) \cup {key} |-> IF k = key THEN value ELSE f[k]]

\* -------------------------------------------------------- effort resolver
\* issue_dict.get(issue_id) finds a row
HasIssue(iss, issue_id) == \E k \in 1..Len(iss) : iss[k].id = issue_id

\* issue_dict.get(issue_id)
GetIssue(iss, issue_id) == iss[CHOOSE k \in 1..Len(iss) : iss[k].id = issue_id]

\* [i for i in issues if i["parent_id"] == issue_id], in list order
ChildrenOf(iss, issue_id) == SelectSeq(iss, LAMBDA i : i.parent_id = issue_id)

\* issue["estimated_hours"] or 0.0
calculate_leaf_estimate(issue) ==
    IF Truthy(issue.estimated_hours) THEN issue.estimated_hours ELSE 0

\* variant: looks at the issue's own estimate only, not at the leaves below
has_own_estimate(iss, issue_id) ==
    HasIssue(iss, issue_id) /\ GetIssue(iss, issue_id).estimated_hours # NULL

RECURSIVE has_all_leaf_estimates(_, _)
has_all_leaf_estimates(iss, issue_id) ==
    IF ~HasIssue(iss, issue_id) THEN FALSE
    ELSE LET issue == GetIssue(iss, issue_id)
             children == ChildrenOf(iss, issue_id)
         IN  IF Len(children) = 0
             THEN issue.estimated_hours # NULL
             ELSE \A k \in 1..Len(children) : has_all_leaf_estimates(iss, children[k].id)

\* variant: sums the raw estimates of the children
handle_children_raw(issue, children, child_estimates) ==
    FSum([k \in 1..Len(children) |-> calculate_leaf_estimate(children[k])])

\* sum(child_estimates)
handle_children_estimates(issue, children, child_estimates) == FSum(child_estimates)

\* the warning appended when parent and child both carry a value
WarnsBoth(issue, children) ==
    /\ Truthy(issue.estimated_hours)
    /\ \E k \in 1..Len(children) : Truthy(children[k].estimated_hours)

\* returns the estimate and the warnings list after the call
handle_parent_estimate(issue, children, warns) ==
    [estimate |-> IF Truthy(issue.estimated_hours) THEN issue.estimated_hours ELSE 0,
     warnings |-> IF WarnsBoth(issue, children)
                  THEN Append(warns, [issue_id |-> issue.id, hours |-> issue.estimated_hours])
                  ELSE warns]

RECURSIVE calc_effective_estimate(_, _, _)
RECURSIVE CalcChildren(_, _, _, _)

\* child_estimates = [calc_func(child["id"]) for child in children]:
\* the calls run in list order and thread the memo table and the warnings
CalcChildren(iss, children, k, st) ==
    IF k > Len(children) THEN st
    ELSE CalcChildren(iss, children, k + 1,
                      calc_effective_estimate(iss, children[k].id, st))

calculate_parent_estimate(iss, issue, children, st) ==
    LET st1 == CalcChildren(iss, children, 1, st)
        child_estimates == [k \in 1..Len(children) |-> st1.estimates[children[k].id]]
        all_children_have_estimates ==
            \A k \in 1..Len(children) : has_all_leaf_estimates(iss, children[k].id)
    IN  IF all_children_have_estimates
        THEN [estimate |-> handle_children_estimates(issue, children, child_estimates),
              warnings |-> st1.warnings,
              estimates |-> st1.estimates]
        ELSE LET h == handle_parent_estimate(issue, children, st1.warnings)
             IN  [estimate |-> h.estimate,
                  warnings |-> h.warnings,
                  estimates |-> st1.estimates]

\* st = [estimates, warnings]: the memo table and the warnings list
calc_effective_estimate(iss, issue_id, st) ==
    IF issue_id \in DOMAIN st.estimates THEN st
    ELSE IF ~HasIssue(iss, issue_id) THEN st
    ELSE LET issue == GetIssue(iss, issue_id)
             children == ChildrenOf(iss, issue_id)
         IN  IF Len(children) = 0
             THEN [estimates |-> Put(st.estimates, issue_id, calculate_leaf_estimate(issue)),
                   warnings |-> st.warnings]
             ELSE LET r == calculate_parent_estimate(iss, issue, children, st)
                  IN  [estimates |-> Put(r.estimates, issue_id, r.estimate),
                       warnings |-> r.warnings]

\* for root_issue in root_issues: calc_effective_estimate(root_issue["id"])
RECURSIVE CalcRoots(_, _, _, _)
CalcRoots(iss, root_issues, k, st) ==
    IF k > Len(root_issues) THEN st
    ELSE CalcRoots(iss, root_issues, k + 1,
                   calc_effective_estimate(iss, root_issues[k].id, st))

calculate_effective_estimates(iss, warns) ==
    LET root_issues == SelectSeq(iss, LAMBDA i : i.parent_id = NULL)
    IN  CalcRoots(iss, root_issues, 1, [estimates |-> <<>>, warnings |-> warns])

\* ---------------------------------------------------------------- rollups
\* config.sprint.done_statuses (the default, in ASCII: "完了", "解決")
DoneStatuses == {"Closed", "Resolved"}

\* issue_estimates.get(issue["id"], 0.0)
EstimateGet(est, issue_id) == IF issue_id \in DOMAIN est THEN est[issue_id] ELSE 0

\* variant: compares status names without regard to case
CaseFold(status_name) == IF status_name = "closed" THEN "Closed" ELSE status_name

RECURSIVE MetricsLoopFold(_, _, _, _)
MetricsLoopFold(iss, est, k, acc) ==
    IF k > Len(iss) THEN acc
    ELSE LET issue == iss[k]
             estimate == EstimateGet(est, issue.id)
         IN  IF issue.parent_id = NULL
             THEN MetricsLoopFold(iss, est, k + 1,
                     [scope_hours |-> FAdd(acc.scope_hours, estimate),
                      remaining_hours |->
                          IF CaseFold(issue.status_name) \notin DoneStatuses
                          THEN FAdd(acc.remaining_hours, estimate)
                          ELSE acc.remaining_hours])
             ELSE MetricsLoopFold(iss, est, k + 1, acc)

\* variant: does not skip the issues that have a parent
RECURSIVE MetricsLoopAll(_, _, _, _)
MetricsLoopAll(iss, est, k, acc) ==
    IF k > Len(iss) THEN acc
    ELSE LET issue == iss[k]
             estimate == EstimateGet(est, issue.id)
         IN  MetricsLoopAll(iss, est, k + 1,
                     [scope_hours |-> FAdd(acc.scope_hours, estimate),
                      remaining_hours |->
                          IF issue.status_name \notin DoneStatuses
                          THEN FAdd(acc.remaining_hours, estimate)
                          ELSE acc.remaining_hours])

\* the loop "for issue in issues" of _calculate_snapshot_metrics
RECURSIVE MetricsLoop(_, _, _, _)
MetricsLoop(iss, est, k, acc) ==
    IF k > Len(iss) THEN acc
    ELSE LET issue == iss[k]
             estimate == EstimateGet(est, issue.id)
         IN  IF issue.parent_id = NULL
             THEN MetricsLoop(iss, est, k + 1,
                     [scope_hours |-> FAdd(acc.scope_hours, estimate),
                      remaining_hours |->
                          IF issue.status_name \notin DoneStatuses
                          THEN FAdd(acc.remaining_hours, estimate)
                          ELSE acc.remaining_hours])
             ELSE MetricsLoop(iss, est, k + 1, acc)

\* variant: completed_hours is accumulated over the done roots on its own
metrics_completed_summed(iss, est) ==
    LET acc == MetricsLoop(iss, est, 1, [scope_hours |-> 0, remaining_hours |-> 0])
        done == SelectSeq(iss, LAMBDA i : i.parent_id = NULL /\ i.status_name \in DoneStatuses)
    IN  [scope_hours |-> acc.scope_hours,
         remaining_hours |-> acc.remaining_hours,
         completed_hours |-> FSum([k \in 1..Len(done) |-> EstimateGet(est, done[k].id)])]

calculate_snapshot_metrics(iss, est) ==
    LET acc == MetricsLoop(iss, est, 1, [scope_hours |-> 0, remaining_hours |-> 0])
    IN  [scope_hours |-> acc.scope_hours,
         remaining_hours |-> acc.remaining_hours,
         completed_hours |-> FSub(acc.scope_hours, acc.remaining_hours)]

\* position of the assignee key in the insertion-ordered dict, 0 if absent
StatsIndex(stats, assignee_id) ==
    IF \E g \in 1..Len(stats) : stats[g].assigned_to_id = assignee_id
    THEN CHOOSE g \in 1..Len(stats) : stats[g].assigned_to_id = assignee_id
    ELSE 0

\* variant: does not skip the issues that have a parent
RECURSIVE AssigneeLoopAll(_, _, _, _)
AssigneeLoopAll(iss, est, k, stats) ==
    IF k > Len(iss) THEN stats
    ELSE LET issue == iss[k]
             estimate == EstimateGet(est, issue.id)
             withKey == IF StatsIndex(stats, issue.assigned_to_id) = 0
                        THEN Append(stats, [assigned_to_id |-> issue.assigned_to_id,
                                            assigned_to_name |-> issue.assigned_to_name,
                                            scope_hours |-> 0,
                                            remaining_hours |-> 0])
                        ELSE stats
             g == StatsIndex(withKey, issue.assigned_to_id)
         IN  AssigneeLoopAll(iss, est, k + 1,
                     [withKey EXCEPT
                        ![g].scope_hours = FAdd(@, estimate),
                        ![g].remaining_hours =
                            IF issue.status_name \notin DoneStatuses
                            THEN FAdd(@, estimate) ELSE @])

\* the loop "for issue in issues" of _calculate_assignee_snapshots:
\* assignee_stats and assignee_names as one insertion-ordered sequence
RECURSIVE AssigneeLoop(_, _, _, _)
AssigneeLoop(iss, est, k, stats) ==
    IF k > Len(iss) THEN stats
    ELSE LET issue == iss[k]
             estimate == EstimateGet(est, issue.id)
             withKey == IF StatsIndex(stats, issue.assigned_to_id) = 0
                        THEN Append(stats, [assigned_to_id |-> issue.assigned_to_id,
                                            assigned_to_name |-> issue.assigned_to_name,
                                            scope_hours |-> 0,
                                            remaining_hours |-> 0])
                        ELSE stats
             g == StatsIndex(withKey, issue.assigned_to_id)
         IN  IF issue.parent_id # NULL
             THEN AssigneeLoop(iss, est, k + 1, stats)
             ELSE AssigneeLoop(iss, est, k + 1,
                     [withKey EXCEPT
                        ![g].scope_hours = FAdd(@, estimate),
                        ![g].remaining_hours =
                            IF issue.status_name \notin DoneStatuses
                            THEN FAdd(@, estimate) ELSE @])

\* the records of every assignee key, completed_hours filled in
AssigneeRecords(stats) ==
    [g \in 1..Len(stats) |->
        [assigned_to_id |-> stats[g].assigned_to_id,
         assigned_to_name |-> stats[g].assigned_to_name,
         scope_hours |-> stats[g].scope_hours,
         remaining_hours |-> stats[g].remaining_hours,
         completed_hours |-> FSub(stats[g].scope_hours, stats[g].remaining_hours)]]

\* variant: emits the record of every assignee key, also with scope 0
assignee_snapshots_unfiltered(iss, est) ==
    AssigneeRecords(AssigneeLoop(iss, est, 1, <<>>))

calculate_assignee_snapshots(iss, est) ==
    LET stats == AssigneeLoop(iss, est, 1, <<>>)
    IN  SelectSeq(AssigneeRecords(stats), LAMBDA r : r.scope_hours > 0)

\* --------------------------------------------------------------- calendar
\* A datetime.date is a record of year, month and day.  The text of a date
\* column ("YYYY-MM-DD") is the sequence of its fields split at "-": the
\* empty string is <<>>, "2025-02-30" is <<2025, 2, 30>>.
MkDate(y, m, d) == [year |-> y, month |-> m, day |-> d]

\* a column that holds None, and a column that holds a text
NoText == [is_null |-> TRUE, fields |-> <<>>]

Text(f) == [is_null |-> FALSE, fields |-> f]

\* truth value of an optional text: None and "" are falsy
TruthyText(t) == ~t.is_null /\ t.fields # <<>>

IsLeap(y) == (y % 4 = 0 /\ y % 100 # 0) \/ y % 400 = 0

DaysInMonth(y, m) ==
    IF m = 2 THEN (IF IsLeap(y) THEN 29 ELSE 28)
    ELSE IF m \in {4, 6, 9, 11} THEN 30 ELSE 31

\* days of the year y before the first of month m
RECURSIVE DaysBeforeMonth(_, _)
DaysBeforeMonth(y, m) ==
    IF m = 1 THEN 0 ELSE DaysBeforeMonth(y, m - 1) + DaysInMonth(y, m - 1)

\* date.toordinal(): 0001-01-01 is day 1
Ordinal(d) ==
    LET y == d.year - 1
    IN  y * 365 + y \div 4 - y \div 100 + y \div 400
        + DaysBeforeMonth(d.year, d.month) + d.day

\* date.weekday(): 0 is Monday, 6 is Sunday
Weekday(d) == (Ordinal(d) + 6) % 7

\* date + timedelta(days=1)
NextDay(d) ==
    IF d.day < DaysInMonth(d.year, d.month) THEN MkDate(d.year, d.month, d.day + 1)
    ELSE IF d.month < 12 THEN MkDate(d.year, d.month + 1, 1)
    ELSE MkDate(d.year + 1, 1, 1)

\* date < date: years, then months, then days
DateLess(a, b) ==
    \/ a.year < b.year
    \/ a.year = b.year /\ a.month < b.month
    \/ a.year = b.year /\ a.month = b.month /\ a.day < b.day

\* datetime.strptime(text, "%Y-%m-%d").date(): ok is FALSE where it raises
\* ValueError
strptime(t) ==
    LET f == t.fields
        ok == /\ Len(f) = 3
              /\ f[1] \in 1..9999
              /\ f[2] \in 1..12
              /\ f[3] \in 1..DaysInMonth(f[1], f[2])
    IN  IF ok THEN [ok |-> TRUE, date |-> MkDate(f[1], f[2], f[3])]
        ELSE [ok |-> FALSE, date |-> MkDate(1, 1, 1)]

\* date.isoformat()
isoformat(d) == Text(<<d.year, d.month, d.day>>)

\* jpholiday.is_holiday over the dates of the model: New Year's Day and
\* Coming of Age Day 2025
Holidays == {MkDate(2025, 1, 1), MkDate(2025, 1, 13)}

is_holiday(d) == d \in Holidays

\* variant: the end date is counted too
RECURSIVE count_business_days_closed(_, _)
count_business_days_closed(current_date, end_date) ==
    IF DateLess(end_date, current_date) THEN 0
    ELSE (IF Weekday(current_date) < 5 /\ ~is_holiday(current_date) THEN 1 ELSE 0)
         + count_business_days_closed(NextDay(current_date), end_date)

\* _count_business_days: the while loop from start_date up to end_date
RECURSIVE count_business_days(_, _)
count_business_days(current_date, end_date) ==
    IF ~DateLess(current_date, end_date) THEN 0
    ELSE (IF Weekday(current_date) < 5 /\ ~is_holiday(current_date) THEN 1 ELSE 0)
         + count_business_days(NextDay(current_date), end_date)

\* float * int: the product rounded
FMul(a, n) == Round(a * n)

\* least e such that x / (n * 2^e) has at most Prec bits
RECURSIVE QuotientExponent(_, _, _)
QuotientExponent(x, n, e) ==
    IF x \div (n * Pow2(e)) < Pow2(Prec) THEN e ELSE QuotientExponent(x, n, e + 1)

\* float / int (n > 0): the quotient rounded to nearest, ties to even
FDiv(a, n) ==
    LET e == QuotientExponent(a, n, 0)
        unit == n * Pow2(e)
        q == a \div unit
        r == a % unit
        up == (2 * r > unit) \/ (2 * r = unit /\ q % 2 = 1)
    IN  IF up THEN (q + 1) * Pow2(e) ELSE q * Pow2(e)

Max(a, b) == IF a >= b THEN a ELSE b

\* how a call ends: it returns a value, or it raises an error
Returned(v) == [raised |-> FALSE, value |-> v, error |-> ""]

Raised(e) == [raised |-> TRUE, value |-> 0, error |-> e]

\* variant: the elapsed share of the scope instead of the remaining one
ideal_remaining_elapsed(start_date, due_date, target_date, initial_scope) ==
    LET total_business_days == count_business_days(start_date, due_date)
        elapsed_business_days == count_business_days(start_date, target_date)
    IN  IF total_business_days <= 0 THEN 0
        ELSE FDiv(FMul(initial_scope, elapsed_business_days), total_business_days)

\* the computation after both dates parsed
ideal_remaining_between(start_date, due_date, target_date, initial_scope) ==
    LET total_business_days == count_business_days(start_date, due_date)
        elapsed_business_days == count_business_days(start_date, target_date)
        remaining_business_days == Max(0, total_business_days - elapsed_business_days)
    IN  IF total_business_days <= 0 THEN 0
        ELSE Max(0, FDiv(FMul(initial_scope, remaining_business_days),
                         total_business_days))

\* variant: the ValueError of strptime is not caught
ideal_remaining_uncaught(version_info, target_date, initial_scope) ==
    LET start == strptime(version_info.start_date)
        due == strptime(version_info.due_date)
    IN  IF ~TruthyText(version_info.start_date) \/ ~TruthyText(version_info.due_date)
        THEN Returned(0)
        ELSE IF ~start.ok \/ ~due.ok THEN Raised("ValueError")
        ELSE Returned(ideal_remaining_between(start.date, due.date,
                                              target_date, initial_scope))

\* variant: the elapsed days are not subtracted
ideal_remaining_flat(version_info, target_date, initial_scope) ==
    LET start == strptime(version_info.start_date)
        due == strptime(version_info.due_date)
    IN  IF ~TruthyText(version_info.start_date) \/ ~TruthyText(version_info.due_date)
        THEN Returned(0)
        ELSE IF ~start.ok \/ ~due.ok THEN Returned(0)
        ELSE IF count_business_days(start.date, due.date) <= 0 THEN Returned(0)
        ELSE Returned(initial_scope)

\* _calculate_ideal_remaining
calculate_ideal_remaining(version_info, target_date, initial_scope) ==
    LET start == strptime(version_info.start_date)
        due == strptime(version_info.due_date)
    IN  IF ~TruthyText(version_info.start_date) \/ ~TruthyText(version_info.due_date)
        THEN Returned(0)
        ELSE IF ~start.ok \/ ~due.ok THEN Returned(0)
        ELSE Returned(ideal_remaining_between(start.date, due.date,
                                              target_date, initial_scope))

\* assigned_to_name of the issue rows of an assignee
AssigneeName(a) == IF a = NULL THEN "NULL" ELSE "user"

\* ------------------------------------------------------------------ store
\* The SQLite tables are sequences of rows in rowid order; db holds
\* versions, releases, issue_journals, snapshots, assignee_snapshots and
\* meta, the issues table is the variable issues.

\* SQL equality of two key columns: NULL equals nothing, not even NULL
SqlEq(a, b) == a # NULL /\ b # NULL /\ a = b

\* PRIMARY KEY (date, target_type, target_id) of snapshots
SnapshotKeyConflict(row, new) ==
    /\ row.date = new.date
    /\ row.target_type = new.target_type
    /\ row.target_id = new.target_id

\* PRIMARY KEY (date, target_type, target_id, assigned_to_id) of
\* assignee_snapshots
AssigneeKeyConflict(row, new) ==
    /\ SnapshotKeyConflict(row, new)
    /\ SqlEq(row.assigned_to_id, new.assigned_to_id)

\* INSERT OR REPLACE: the rows in conflict with the new one are deleted,
\* the new row gets the next rowid
insert_or_replace(table, rows, new) ==
    LET conflict(r) == IF table = "snapshots" THEN SnapshotKeyConflict(r, new)
                       ELSE AssigneeKeyConflict(r, new)
    IN  Append(SelectSeq(rows, LAMBDA r : ~conflict(r)), new)

save_snapshot(d, row) ==
    [d EXCEPT !.snapshots = insert_or_replace("snapshots", @, row)]

save_assignee_snapshot(d, row) ==
    [d EXCEPT !.assignee_snapshots = insert_or_replace("assignee_snapshots", @, row)]

\* str(float): "8.0" is the fields 8 and 0 around the point
str_float(x) == Text(<<x, 0>>)

MetaKey(prefix, target_type, target_id) == <<prefix, target_type, target_id>>

\* variant: the initial scope is written by every invocation
update_metadata_overwriting(d, target_id, target_type, target_date, scope_hours) ==
    [d EXCEPT !.meta =
        Put(Put(@, MetaKey("initial_scope", target_type, target_id), str_float(scope_hours)),
            MetaKey("last_snapshot", target_type, target_id), isoformat(target_date))]

\* _update_metadata
update_metadata(d, target_id, target_type, target_date, scope_hours) ==
    LET meta_key_prefix == MetaKey("initial_scope", target_type, target_id)
        last_snapshot_key == MetaKey("last_snapshot", target_type, target_id)
        first == IF meta_key_prefix \in DOMAIN d.meta THEN d.meta
                 ELSE Put(d.meta, meta_key_prefix, str_float(scope_hours))
    IN  [d EXCEPT !.meta = Put(first, last_snapshot_key, isoformat(target_date))]

\* _get_version_id: SELECT id FROM versions WHERE name = ?
get_version_id(d, version_name) ==
    LET rows == SelectSeq(d.versions, LAMBDA v : v.name = version_name)
    IN  IF rows = <<>> THEN NULL ELSE rows[1].id

\* _get_version_info: dict(row), or {} whose .get() gives None
get_version_info(d, version_id) ==
    LET rows == SelectSeq(d.versions, LAMBDA v : v.id = version_id)
    IN  IF rows = <<>> THEN [start_date |-> NoText, due_date |-> NoText]
        ELSE [start_date |-> rows[1].start_date, due_date |-> rows[1].due_date]

\* _get_project_id: a digit string is the id, any other identifier gives
\* the project of the first issue row
get_project_id(iss, project_identifier) ==
    IF project_identifier.is_digit THEN project_identifier.number
    ELSE IF iss = <<>> THEN NULL ELSE iss[1].project_id

\* ReleaseModel.get_release_by_criteria
get_release_by_criteria(d, project_id, due_date, name) ==
    SelectSeq(d.releases, LAMBDA r : /\ r.project_id = project_id
                                     /\ r.due_date = due_date
                                     /\ r.name = name)

\* f"Release-{release_due_date}"
DefaultReleaseName(release_due_date) == Text(<<"Release-">> \o release_due_date.fields)

Target(target_id, target_type) == [target_id |-> target_id, target_type |-> target_type]

\* variant: an unknown version name falls back to the first version
prepare_version_mode_lenient(d, version_name) ==
    LET version_id == get_version_id(d, version_name)
    IN  IF ~Truthy(version_id)
        THEN Returned(Target(IF d.versions = <<>> THEN 0 ELSE d.versions[1].id, "version"))
        ELSE Returned(Target(version_id, "version"))

\* _prepare_version_mode
prepare_version_mode(d, version_name) ==
    LET version_id == get_version_id(d, version_name)
    IN  IF ~Truthy(version_id) THEN Raised("ValueError")
        ELSE Returned(Target(version_id, "version"))

\* _prepare_release_mode
prepare_release_mode(d, iss, project_identifier, release_due_date, release_name) ==
    LET final_release_name == IF TruthyText(release_name) THEN release_name
                              ELSE DefaultReleaseName(release_due_date)
        project_id == get_project_id(iss, project_identifier)
        release_info == get_release_by_criteria(d, project_id, release_due_date,
                                                final_release_name)
    IN  IF ~Truthy(project_id) THEN Raised("ValueError")
        ELSE IF release_info = <<>> THEN Raised("ValueError")
        ELSE Returned(Target(release_info[1].id, "release"))

\* _determine_target
determine_target(d, iss, a) ==
    IF TruthyText(a.version_name) THEN prepare_version_mode(d, a.version_name)
    ELSE IF TruthyText(a.release_due_date)
    THEN prepare_release_mode(d, iss, a.project_identifier, a.release_due_date,
                              a.release_name)
    ELSE Raised("ValueError")

\* IssueModel.get_issues_by_version: ... WHERE version_id = ? ORDER BY id
get_issues_by_version(iss, version_id) ==
    SelectSeq(iss, LAMBDA i : i.version_id = version_id)

\* text <= text on date columns of equal width: field by field
RECURSIVE FieldsLessEq(_, _, _)
FieldsLessEq(a, b, k) ==
    IF k > Len(a) \/ k > Len(b) THEN Len(a) <= Len(b)
    ELSE IF a[k] # b[k] THEN a[k] < b[k]
    ELSE FieldsLessEq(a, b, k + 1)

\* variant: the rows are not restricted to those without a parent
get_issues_by_due_date_all(iss, project_id, due_date) ==
    SelectSeq(iss, LAMBDA i : /\ i.project_id = project_id
                              /\ ~i.due_date.is_null
                              /\ FieldsLessEq(i.due_date.fields, due_date.fields, 1))

\* IssueModel.get_root_issues_by_due_date:
\* ... WHERE project_id = ? AND due_date <= ? AND parent_id IS NULL ORDER BY id
get_root_issues_by_due_date(iss, project_id, due_date) ==
    SelectSeq(iss, LAMBDA i : /\ i.project_id = project_id
                              /\ ~i.due_date.is_null
                              /\ FieldsLessEq(i.due_date.fields, due_date.fields, 1)
                              /\ i.parent_id = NULL)

\* _get_issues_by_due_date
get_issues_by_due_date(iss, project_identifier, due_date, target_date) ==
    LET project_id == get_project_id(iss, project_identifier)
    IN  IF ~Truthy(project_id) THEN <<>>
        ELSE get_root_issues_by_due_date(iss, project_id, due_date)

\* the value that a journal entry gives to its field of an issue row
Rewound(issue, j) ==
    IF j.field = "estimated_hours" THEN [issue EXCEPT !.estimated_hours = j.old_value]
    ELSE [issue EXCEPT !.assigned_to_id = j.old_value,
                       !.assigned_to_name = AssigneeName(j.old_value)]

\* the row as it was before the journal entries k, k+1, ... made after
\* target_date (latest entry undone first)
RECURSIVE RewindFrom(_, _, _, _)
RewindFrom(issue, journals, k, target_date) ==
    IF k > Len(journals) THEN issue
    ELSE LET later == RewindFrom(issue, journals, k + 1, target_date)
             j == journals[k]
         IN  IF j.issue_id = issue.id /\ DateLess(target_date, j.at)
             THEN Rewound(later, j) ELSE later

\* variant: the changes journalled after target_date are rolled back
get_issues_at_date_rewinding(iss, journals, version_id, target_date) ==
    LET rows == get_issues_by_version(iss, version_id)
    IN  [k \in 1..Len(rows) |-> RewindFrom(rows[k], journals, 1, target_date)]

\* _get_issues_at_date: the current rows, whatever the journals hold
get_issues_at_date(iss, journals, version_id, target_date) ==
    get_issues_by_version(iss, version_id)

\* _get_target_issues
get_target_issues(d, iss, target, a) ==
    IF target.target_type = "version"
    THEN get_issues_at_date(iss, d.issue_journals, target.target_id, a.target_date)
    ELSE get_issues_by_due_date(iss, a.project_identifier, a.release_due_date,
                                a.target_date)

\* variant: the ideal line starts from the initial_scope entry of the
\* metadata when the target has one
snapshot_metrics_from_meta(d, iss, target, target_date, est) ==
    LET rows == IF target.target_type = "version"
                THEN get_issues_by_version(iss, target.target_id)
                ELSE SelectSeq(iss, LAMBDA i : i.id \in DOMAIN est)
        m == calculate_snapshot_metrics(rows, est)
        key == MetaKey("initial_scope", target.target_type, target.target_id)
        initial_scope == IF key \in DOMAIN d.meta THEN d.meta[key].fields[1]
                         ELSE m.scope_hours
        ideal == IF target.target_type = "version"
                 THEN calculate_ideal_remaining(get_version_info(d, target.target_id),
                                                target_date, initial_scope).value
                 ELSE m.scope_hours
    IN  [date |-> isoformat(target_date),
         target_type |-> target.target_type,
         target_id |-> target.target_id,
         scope_hours |-> m.scope_hours,
         remaining_hours |-> m.remaining_hours,
         completed_hours |-> m.completed_hours,
         ideal_remaining_hours |-> ideal,
         v_avg |-> 0, v_max |-> 0, v_min |-> 0]

\* _calculate_snapshot_metrics with the rows it reads and the fields it adds
snapshot_metrics_record(d, iss, target, target_date, est) ==
    LET rows == IF target.target_type = "version"
                THEN get_issues_by_version(iss, target.target_id)
                ELSE SelectSeq(iss, LAMBDA i : i.id \in DOMAIN est)
        m == calculate_snapshot_metrics(rows, est)
        ideal == IF target.target_type = "version"
                 THEN calculate_ideal_remaining(get_version_info(d, target.target_id),
                                                target_date, m.scope_hours).value
                 ELSE m.scope_hours
    IN  [date |-> isoformat(target_date),
         target_type |-> target.target_type,
         target_id |-> target.target_id,
         scope_hours |-> m.scope_hours,
         remaining_hours |-> m.remaining_hours,
         completed_hours |-> m.completed_hours,
         ideal_remaining_hours |-> ideal,
         v_avg |-> 0, v_max |-> 0, v_min |-> 0]

\* _calculate_assignee_snapshots with the key fields of each record
assignee_snapshot_records(target, target_date, working, est) ==
    LET recs == calculate_assignee_snapshots(working, est)
    IN  [k \in 1..Len(recs) |->
            [date |-> isoformat(target_date),
             target_type |-> target.target_type,
             target_id |-> target.target_id,
             assigned_to_id |-> recs[k].assigned_to_id,
             assigned_to_name |-> recs[k].assigned_to_name,
             scope_hours |-> recs[k].scope_hours,
             remaining_hours |-> recs[k].remaining_hours,
             completed_hours |-> recs[k].completed_hours]]

\* variant: the metadata is updated before the rows are saved
snapshot_writes_meta_first(snap, asg) ==
    <<[table |-> "meta", row |-> snap], [table |-> "snapshots", row |-> snap]>>
    \o [k \in 1..Len(asg) |-> [table |-> "assignee_snapshots", row |-> asg[k]]]

\* the storage writes of _calculate_and_save_snapshots, in their order
SnapshotWrites(snap, asg) ==
    <<[table |-> "snapshots", row |-> snap]>>
    \o [k \in 1..Len(asg) |-> [table |-> "assignee_snapshots", row |-> asg[k]]]
    \o <<[table |-> "meta", row |-> snap]>>

\* one storage write, committed on its own
Write(d, w, target_date) ==
    IF w.table = "snapshots" THEN save_snapshot(d, w.row)
    ELSE IF w.table = "assignee_snapshots" THEN save_assignee_snapshot(d, w.row)
    ELSE update_metadata(d, w.row.target_id, w.row.target_type, target_date,
                         w.row.scope_hours)

\* the store after the first n writes
RECURSIVE ApplyWrites(_, _, _, _)
ApplyWrites(d, writes, n, target_date) ==
    IF n = 0 THEN d
    ELSE Write(ApplyWrites(d, writes, n - 1, target_date), writes[n], target_date)

\* ------------------------------------------------------------------ state
VARIABLES issues, estimates, warnings, snapshot_data, assignee_snapshots, pc,
          calendar, db, log, tracker, running

vars == <<issues, estimates, warnings, snapshot_data, assignee_snapshots, pc,
          calendar, db, log, tracker, running>>

IssueIds == 1..MaxIssues

\* raw estimates of the hierarchy-centred working sets
RawEstimates == {NULL, 0, 1, 2}

\* raw estimates of the rollup-centred working sets: 1 + 2^Prec is not
\* representable, so sums over them round
RollupEstimates == {0, 1, Pow2(Prec)}

StatusNames == {"Closed", "closed"}

AssigneeIds == {NULL, 10}

\* a parent id that names no row of the rollup-centred working sets
OrphanParent == AggIssues + 1

MkIssue(i, p, e, s, a) ==
    [id |-> i, parent_id |-> p, estimated_hours |-> e, status_name |-> s,
     assigned_to_id |-> a, assigned_to_name |-> AssigneeName(a)]

\* rows ORDER BY id of the ids that f keeps
RowsOf(f) ==
    LET all == [i \in IssueIds |->
                   IF f[i] = <<>> THEN MkIssue(i, NULL, NULL, "absent", NULL)
                   ELSE MkIssue(i, f[i][1], f[i][2],
                                IF i = 1 THEN "Closed" ELSE "Open",
                                IF i % 2 = 0 THEN 10 ELSE NULL)]
    IN  SelectSeq(all, LAMBDA r : r.status_name # "absent")

\* every chain of parent references that starts at issue_id leaves the
\* working set (at None or at an absent row) within n steps
RECURSIVE ChainEnds(_, _, _)
ChainEnds(iss, issue_id, n) ==
    IF issue_id = NULL \/ ~HasIssue(iss, issue_id) THEN TRUE
    ELSE IF n = 0 THEN FALSE
    ELSE ChainEnds(iss, GetIssue(iss, issue_id).parent_id, n - 1)

\* no row is its own ancestor
Acyclic(iss) == \A k \in 1..Len(iss) : ChainEnds(iss, iss[k].id, Len(iss))

\* every parent reference is None or names a row of the working set
ParentsPresent(iss) ==
    \A k \in 1..Len(iss) : iss[k].parent_id = NULL \/ HasIssue(iss, iss[k].parent_id)

NotStarted ==
    /\ estimates = <<>>
    /\ warnings = <<>>
    /\ snapshot_data = <<>>
    /\ assignee_snapshots = <<>>
    /\ pc = "fetched"
    /\ tracker = <<>>
    /\ running = <<>>
    /\ calendar = [pc |-> "idle"]
    /\ db = <<>>
    /\ log = <<>>

HierarchyRows ==
    {RowsOf(f) : f \in [IssueIds -> {<<>>} \cup (({NULL} \cup IssueIds) \X RawEstimates)]}

\* hierarchy-centred working sets: any subset of the ids, any parent
\* reference (absent parents, self references and cycles included)
Init ==
    /\ issues \in HierarchyRows
    /\ NotStarted

\* the working sets without a cycle of parent references; a parent may
\* still be absent (a sub-task whose parent belongs to another version)
InitAcyclic ==
    /\ issues \in {r \in HierarchyRows : Acyclic(r)}
    /\ NotStarted

\* the working sets that are forests: no cycle and every parent present
InitForest ==
    /\ issues \in {r \in HierarchyRows : Acyclic(r) /\ ParentsPresent(r)}
    /\ NotStarted

\* rollup-centred working sets: issue 1 is a root or an orphan, the others
\* are roots or children of issue 1; statuses and assignees vary
AggParents(i) == IF i = 1 THEN {NULL, OrphanParent} ELSE {NULL, 1}

InitAgg ==
    /\ \E f \in [1..AggIssues -> RollupEstimates \X StatusNames \X AssigneeIds] :
       \E p \in [1..AggIssues -> {NULL, 1, OrphanParent}] :
          /\ \A i \in 1..AggIssues : p[i] \in AggParents(i)
          /\ issues = [i \in 1..AggIssues |-> MkIssue(i, p[i], f[i][1], f[i][2], f[i][3])]
    /\ NotStarted

\* create_snapshot, line 68: issue_estimates = _calculate_effective_estimates(...)
ResolveEstimates ==
    /\ pc = "fetched"
    /\ LET st == calculate_effective_estimates(issues, <<>>)
       IN  /\ estimates' = st.estimates
           /\ warnings' = st.warnings
    /\ pc' = "resolved"
    /\ UNCHANGED <<issues, snapshot_data, assignee_snapshots, calendar, db, log,
                   tracker, running>>

\* _calculate_and_save_snapshots, lines 165-174: the two rollups
Aggregate ==
    /\ pc = "resolved"
    /\ snapshot_data' = calculate_snapshot_metrics(issues, estimates)
    /\ assignee_snapshots' = calculate_assignee_snapshots(issues, estimates)
    /\ pc' = "aggregated"
    /\ UNCHANGED <<issues, estimates, warnings, calendar, db, log,
                   tracker, running>>

\* the status and the assignee of one issue with a parent reference are
\* changed and the rollups are run again on the same estimates map
ReaggregateChildChange ==
    /\ pc \in {"aggregated", "reaggregated"}
    /\ \E k \in 1..Len(issues), s \in StatusNames, a \in AssigneeIds :
          /\ issues[k].parent_id # NULL
          /\ issues' = [issues EXCEPT ![k].status_name = s,
                                      ![k].assigned_to_id = a,
                                      ![k].assigned_to_name = AssigneeName(a)]
    /\ snapshot_data' = calculate_snapshot_metrics(issues', estimates)
    /\ assignee_snapshots' = calculate_assignee_snapshots(issues', estimates)
    /\ pc' = "reaggregated"
    /\ UNCHANGED <<estimates, warnings, calendar, db, log,
                   tracker, running>>

Next == ResolveEstimates \/ Aggregate

Spec == Init /\ [][Next]_vars

SpecAcyclic == InitAcyclic /\ [][Next]_vars

SpecForest == InitForest /\ [][Next]_vars

NextAgg == ResolveEstimates \/ Aggregate \/ ReaggregateChildChange

SpecAggregate == InitAgg /\ [][NextAgg]_vars

\* ------------------------------------------------- state of the calendar
\* the first date of the model and the MaxDays dates from it on
FirstDay == MkDate(2024, 12, 30)

RECURSIVE DaysFrom(_, _)
DaysFrom(d, n) == IF n = 0 THEN {} ELSE {d} \cup DaysFrom(NextDay(d), n - 1)

ModelDates == DaysFrom(FirstDay, MaxDays)

\* start_date and due_date columns: None, "", a day that does not exist,
\* and the dates of the model
DateTexts ==
    {NoText, Text(<<>>), Text(<<2025, 2, 30>>)} \cup {isoformat(d) : d \in ModelDates}

\* 2^Prec - 1 times 5 is not representable, so the product rounds
IdealScopes == {0, 1, Pow2(Prec) - 1}

IdealInputs ==
    [pc : {"ideal_input"},
     version_info : [start_date : DateTexts, due_date : DateTexts],
     target_date : ModelDates,
     initial_scope : IdealScopes]

CountInputs ==
    [pc : {"count_input"}, start_date : ModelDates, end_date : ModelDates]

InitCalendar ==
    /\ issues = <<>>
    /\ estimates = <<>>
    /\ warnings = <<>>
    /\ snapshot_data = <<>>
    /\ assignee_snapshots = <<>>
    /\ pc = "calendar"
    /\ tracker = <<>>
    /\ running = <<>>
    /\ calendar \in IdealInputs \cup CountInputs
    /\ db = <<>>
    /\ log = <<>>

\* _calculate_ideal_remaining(version_info, target_date, initial_scope)
CalculateIdealRemaining ==
    /\ calendar.pc = "ideal_input"
    /\ calendar' = [pc |-> "ideal_done",
                    version_info |-> calendar.version_info,
                    target_date |-> calendar.target_date,
                    initial_scope |-> calendar.initial_scope,
                    result |-> calculate_ideal_remaining(calendar.version_info,
                                  calendar.target_date, calendar.initial_scope)]
    /\ UNCHANGED <<issues, estimates, warnings, snapshot_data, assignee_snapshots,
                   pc, db, log,
                   tracker, running>>

\* _count_business_days(start_date, end_date)
CountBusinessDays ==
    /\ calendar.pc = "count_input"
    /\ calendar' = [pc |-> "count_done",
                    start_date |-> calendar.start_date,
                    end_date |-> calendar.end_date,
                    business_days |-> count_business_days(calendar.start_date,
                                                          calendar.end_date)]
    /\ UNCHANGED <<issues, estimates, warnings, snapshot_data, assignee_snapshots,
                   pc, db, log,
                   tracker, running>>

NextCalendar == CalculateIdealRemaining \/ CountBusinessDays

SpecCalendar == InitCalendar /\ [][NextCalendar]_vars

\* --------------------------------------------------- state of the store
\* raw estimates of the issue rows of the store
StoreEstimates == {0, 1}

\* issue rows of project 1 and version 1: rows 1 and 2 have no parent, the
\* further rows are children of row 1; row 2 is done and has no due date
MkStoreIssue(i, e, a) ==
    [id |-> i, project_id |-> 1, version_id |-> 1,
     parent_id |-> IF i <= 2 THEN NULL ELSE 1,
     estimated_hours |-> e,
     status_name |-> IF i = 2 THEN "Closed" ELSE "Open",
     assigned_to_id |-> a, assigned_to_name |-> AssigneeName(a),
     due_date |-> IF i = 2 THEN NoText ELSE isoformat(FirstDay)]

StoreIssueRows ==
    {[i \in 1..StoreIssues |-> MkStoreIssue(i, f[i][1], f[i][2])] :
        f \in [1..StoreIssues -> StoreEstimates \X AssigneeIds]}

WindowDueDay == MkDate(2025, 1, 7)

VersionRows ==
    <<[id |-> 1, project_id |-> 1, name |-> Text(<<"v1">>),
       start_date |-> isoformat(FirstDay), due_date |-> isoformat(WindowDueDay)]>>

ReleaseRows ==
    <<[id |-> 1, project_id |-> 1, due_date |-> isoformat(WindowDueDay),
       name |-> DefaultReleaseName(isoformat(WindowDueDay))]>>

\* the store after initialize_schema and a first sync: no snapshot yet
InitialDb ==
    [versions |-> VersionRows, releases |-> ReleaseRows, issue_journals |-> <<>>,
     snapshots |-> <<>>, assignee_snapshots |-> <<>>, meta |-> <<>>]

\* project_identifier: a digit string, or any other identifier
DigitIdentifier(n) == [is_digit |-> TRUE, number |-> n]

NameIdentifier == [is_digit |-> FALSE, number |-> 0]

\* the target dates of the invocations: the first day of the window and a
\* day after two business days
TargetDates == {FirstDay, MkDate(2025, 1, 2)}

\* the date of the journal entries of a sync, between the target dates
SyncDay == MkDate(2024, 12, 31)

Args(p, v, d, n, t) ==
    [project_identifier |-> p, version_name |-> v, release_due_date |-> d,
     release_name |-> n, target_date |-> t]

\* arguments of create_snapshot: a version that exists and one that does
\* not, a release that exists (named by a project name) and a release name
\* that does not
InvocationArgs ==
    {Args(DigitIdentifier(1), Text(<<"v1">>), NoText, NoText, t) : t \in TargetDates}
    \cup {Args(DigitIdentifier(1), Text(<<"v9">>), NoText, NoText, t) : t \in TargetDates}
    \cup {Args(NameIdentifier, NoText, isoformat(WindowDueDay), NoText, t) :
             t \in TargetDates}
    \cup {Args(DigitIdentifier(1), NoText, isoformat(WindowDueDay), Text(<<"r9">>), t) :
             t \in TargetDates}

\* what the last invocation was given and how it ended
Invoked(a, outcome, error, iss) ==
    [args |-> a, outcome |-> outcome, error |-> error, issues |-> iss]

TargetKey(target) == <<target.target_type, target.target_id>>

\* per target, the scope of the first and the date of the latest invocation
\* that returned
Baseline(b, target, scope_hours, target_date) ==
    Put(b, TargetKey(target),
        [initial_scope |-> IF TargetKey(target) \in DOMAIN b
                           THEN b[TargetKey(target)].initial_scope ELSE scope_hours,
         last_snapshot |-> target_date])

InitStore ==
    /\ issues \in StoreIssueRows
    /\ estimates = <<>>
    /\ warnings = <<>>
    /\ snapshot_data = <<>>
    /\ assignee_snapshots = <<>>
    /\ pc = "store"
    /\ tracker = <<>>
    /\ running = <<>>
    /\ calendar = [pc |-> "idle"]
    /\ db = InitialDb
    /\ log = [runs |-> 0, syncs |-> 0, last |-> Invoked(<<>>, "none", "", <<>>),
              baseline |-> <<>>]

\* create_snapshot with the arguments a, from _determine_target to
\* _update_metadata
create_snapshot(a) ==
    LET target == determine_target(db, issues, a)
        working == get_target_issues(db, issues, target.value, a)
        st == calculate_effective_estimates(working, <<>>)
        snap == snapshot_metrics_record(db, issues, target.value,
                                        a.target_date, st.estimates)
        asg == assignee_snapshot_records(target.value, a.target_date,
                                         working, st.estimates)
        writes == SnapshotWrites(snap, asg)
    IN  IF target.raised
        THEN /\ log' = [log EXCEPT !.runs = @ + 1,
                                   !.last = Invoked(a, "raised", target.error, issues)]
             /\ UNCHANGED <<db, estimates, warnings, snapshot_data,
                            assignee_snapshots>>
        ELSE /\ estimates' = st.estimates
             /\ warnings' = st.warnings
             /\ snapshot_data' = snap
             /\ assignee_snapshots' = asg
             /\ db' = ApplyWrites(db, writes, Len(writes), a.target_date)
             /\ log' = [log EXCEPT
                           !.runs = @ + 1,
                           !.last = Invoked(a, "returned", "", issues),
                           !.baseline = Baseline(@, target.value,
                                                 snap.scope_hours, a.target_date)]

CreateSnapshot ==
    /\ pc = "store"
    /\ log.runs < MaxRuns
    /\ \E a \in InvocationArgs : create_snapshot(a)
    /\ UNCHANGED <<issues, pc, calendar,
                   tracker, running>>

\* create_snapshot when the storage fails at one of its writes: the writes
\* before it are committed, the error is raised to the caller
CreateSnapshotStorageFailure ==
    /\ pc = "store"
    /\ log.runs < MaxRuns
    /\ \E a \in InvocationArgs :
          LET target == determine_target(db, issues, a)
              working == get_target_issues(db, issues, target.value, a)
              st == calculate_effective_estimates(working, <<>>)
              snap == snapshot_metrics_record(db, issues, target.value,
                                              a.target_date, st.estimates)
              asg == assignee_snapshot_records(target.value, a.target_date,
                                               working, st.estimates)
              writes == SnapshotWrites(snap, asg)
          IN  /\ ~target.raised
              /\ \E n \in 0..(Len(writes) - 1) :
                    db' = ApplyWrites(db, writes, n, a.target_date)
              /\ log' = [log EXCEPT !.runs = @ + 1,
                                    !.last = Invoked(a, "raised", "OperationalError",
                                                     issues)]
    /\ UNCHANGED <<issues, estimates, warnings, snapshot_data, assignee_snapshots,
                   pc, calendar,
                   tracker, running>>

\* a sync that finds the estimate or the assignee of one issue changed:
\* _save_issue replaces the row, _save_journal records the change
SyncIssue ==
    /\ pc \in {"store", "pipeline"}
    /\ log.syncs < MaxSyncs
    /\ \E k \in 1..Len(issues) :
          \/ \E e \in StoreEstimates \ {issues[k].estimated_hours} :
                /\ issues' = [issues EXCEPT ![k].estimated_hours = e]
                /\ db' = [db EXCEPT !.issue_journals =
                            Append(@, [issue_id |-> issues[k].id, at |-> SyncDay,
                                       field |-> "estimated_hours",
                                       old_value |-> issues[k].estimated_hours,
                                       new_value |-> e])]
          \/ \E u \in AssigneeIds \ {issues[k].assigned_to_id} :
                /\ issues' = [issues EXCEPT ![k].assigned_to_id = u,
                                            ![k].assigned_to_name = AssigneeName(u)]
                /\ db' = [db EXCEPT !.issue_journals =
                            Append(@, [issue_id |-> issues[k].id, at |-> SyncDay,
                                       field |-> "assigned_to_id",
                                       old_value |-> issues[k].assigned_to_id,
                                       new_value |-> u])]
    /\ log' = [log EXCEPT !.syncs = @ + 1]
    /\ UNCHANGED <<estimates, warnings, snapshot_data, assignee_snapshots, pc, calendar,
                   tracker, running>>

NextStore == CreateSnapshot \/ SyncIssue

SpecStore == InitStore /\ [][NextStore]_vars

NextStoreFailure == CreateSnapshot \/ CreateSnapshotStorageFailure

SpecStoreFailure == InitStore /\ [][NextStoreFailure]_vars

\* ------------------------------------------------- vocabulary of the claims
IssueIdSet(iss) == {iss[k].id : k \in 1..Len(iss)}

RawEstimate(iss, issue_id) == GetIssue(iss, issue_id).estimated_hours

RawOrZero(iss, issue_id) ==
    IF RawEstimate(iss, issue_id) = NULL THEN 0 ELSE RawEstimate(iss, issue_id)

ChildIds(iss, issue_id) ==
    {iss[k].id : k \in {j \in 1..Len(iss) : iss[j].parent_id = issue_id}}

IsLeaf(iss, issue_id) == ChildIds(iss, issue_id) = {}

RECURSIVE DescendantsWithin(_, _, _)
DescendantsWithin(iss, S, n) ==
    IF n = 0 THEN S
    ELSE DescendantsWithin(iss, S \cup UNION {ChildIds(iss, x) : x \in S}, n - 1)

Descendants(iss, issue_id) == DescendantsWithin(iss, ChildIds(iss, issue_id), Len(iss))

LeafDescendants(iss, issue_id) == {d \in Descendants(iss, issue_id) : IsLeaf(iss, d)}

\* every leaf below the issue has a non-null raw estimate
FullLeafCoverage(iss, issue_id) ==
    \A d \in LeafDescendants(iss, issue_id) : RawEstimate(iss, d) # NULL

\* a root issue of the glossary: no parent present in the working set
IsRootIssue(iss, issue_id) ==
    LET p == GetIssue(iss, issue_id).parent_id
    IN  p = NULL \/ ~HasIssue(iss, p)

\* the parent reference is set but names no issue of the working set
IsOrphan(iss, issue_id) ==
    LET p == GetIssue(iss, issue_id).parent_id
    IN  p # NULL /\ ~HasIssue(iss, p)

\* the effective estimates of the children, in list order
ChildEstimates(iss, est, issue_id) ==
    LET children == ChildrenOf(iss, issue_id)
    IN  [k \in 1..Len(children) |-> est[children[k].id]]

WarningsFor(warns, issue_id) == {k \in 1..Len(warns) : warns[k].issue_id = issue_id}

Resolved == pc # "fetched"

\* ------------------------------------------------------------------ claims
\* C1 (as stated): every issue of the working set that has no child in the
\* working set is in the returned estimates map, with its raw estimate, or
\* 0 when the raw estimate is null.
C1_LeafProperty ==
    Resolved =>
        \A i \in IssueIdSet(issues) :
            IsLeaf(issues, i) =>
                /\ i \in DOMAIN estimates
                /\ estimates[i] = RawOrZero(issues, i)

\* C2: every non-leaf issue with an effective estimate, at any depth, whose
\* leaf descendants all have a non-null raw estimate is mapped to the sum
\* (Python sum, in list order) of the effective estimates of its direct
\* children; its own raw estimate plays no part.
C2_FullCoverageSum ==
    Resolved =>
        \A i \in DOMAIN estimates :
            (~IsLeaf(issues, i) /\ FullLeafCoverage(issues, i)) =>
                /\ ChildIds(issues, i) \subseteq DOMAIN estimates
                /\ estimates[i] = FSum(ChildEstimates(issues, estimates, i))

\* a parent two levels above a leaf resolves to the sum of its children,
\* which differs from its own non-null raw estimate
C2_Witness ==
    /\ Resolved
    /\ \E i \in DOMAIN estimates :
          /\ FullLeafCoverage(issues, i)
          /\ \E c \in ChildIds(issues, i) : ~IsLeaf(issues, c)
          /\ RawEstimate(issues, i) # NULL
          /\ estimates[i] # RawEstimate(issues, i)
          /\ estimates[i] > 0

\* C3: every non-leaf issue with an effective estimate that has at least
\* one leaf descendant with a null raw estimate is mapped to its own raw
\* estimate, 0 when null; nothing of its children is summed into it.
C3_Fallback ==
    Resolved =>
        \A i \in DOMAIN estimates :
            (~IsLeaf(issues, i) /\ ~FullLeafCoverage(issues, i)) =>
                estimates[i] = RawOrZero(issues, i)

\* a parent falls back to its own estimate although a child has another one,
\* and the null leaf lies below a child that has an estimate of its own
C3_Witness ==
    /\ Resolved
    /\ \E i \in DOMAIN estimates :
          /\ ~FullLeafCoverage(issues, i)
          /\ RawEstimate(issues, i) = 2
          /\ estimates[i] = 2
          /\ \E c \in ChildIds(issues, i) :
                /\ RawEstimate(issues, c) = 1
                /\ ~IsLeaf(issues, c)

\* C4 (as stated): a non-leaf issue without full leaf coverage whose own
\* raw estimate is non-null (0 included) and which has a direct child with
\* a non-null raw estimate (0 included) has exactly one warning.
C4_FallbackWarning ==
    Resolved =>
        \A i \in IssueIdSet(issues) :
            ( /\ ~IsLeaf(issues, i)
              /\ ~FullLeafCoverage(issues, i)
              /\ RawEstimate(issues, i) # NULL
              /\ \E c \in ChildIds(issues, i) : RawEstimate(issues, c) # NULL )
            => Cardinality(WarningsFor(warnings, i)) = 1

\* C5 (as stated): an issue whose parent reference names no issue of the
\* working set is evaluated by the resolver and counted as a root by the
\* whole-scope rollup and by the per-assignee rollup.
C5_OrphanIsRoot ==
    pc = "aggregated" =>
        \A i \in IssueIdSet(issues) :
            IsOrphan(issues, i) =>
                /\ i \in DOMAIN estimates
                /\ LET roots == SelectSeq(issues, LAMBDA r : IsRootIssue(issues, r.id))
                       mine == SelectSeq(roots, LAMBDA r :
                                   r.assigned_to_id = GetIssue(issues, i).assigned_to_id)
                   IN  /\ \A k \in 1..Len(roots) : roots[k].id \in DOMAIN estimates
                       /\ snapshot_data.scope_hours =
                             FSum([k \in 1..Len(roots) |-> estimates[roots[k].id]])
                       /\ \A k \in 1..Len(assignee_snapshots) :
                             assignee_snapshots[k].assigned_to_id
                                 = GetIssue(issues, i).assigned_to_id
                             => assignee_snapshots[k].scope_hours =
                                   FSum([j \in 1..Len(mine) |-> estimates[mine[j].id]])

\* ------------------------------------------------------ claims on rollups
Aggregated == pc \in {"aggregated", "reaggregated"}

\* the effective estimates of the given issues, in list order; an issue
\* that the resolver did not evaluate has none and adds nothing
EntriesOf(sel, est) ==
    LET have == SelectSeq(sel, LAMBDA r : r.id \in DOMAIN est)
    IN  [k \in 1..Len(have) |-> est[have[k].id]]

RootIssues(iss) == SelectSeq(iss, LAMBDA r : IsRootIssue(iss, r.id))

OpenRootIssues(iss) ==
    SelectSeq(RootIssues(iss), LAMBDA r : r.status_name \notin DoneStatuses)

RootIssuesOf(iss, assignee_id) ==
    SelectSeq(RootIssues(iss), LAMBDA r : r.assigned_to_id = assignee_id)

\* the sum of a sequence of hours as real numbers, without rounding
RECURSIVE ExactSumFrom(_, _)
ExactSumFrom(s, k) == IF k > Len(s) THEN 0 ELSE s[k] + ExactSumFrom(s, k + 1)

ExactSum(s) == ExactSumFrom(s, 1)

\* x - y is a float: the subtraction does not round
ExactDifference(x, y) == Round(x - y) = x - y

\* the whole-scope record followed by the per-assignee records
AllRecords == <<snapshot_data>> \o assignee_snapshots

ScopeColumn(recs) == [k \in 1..Len(recs) |-> recs[k].scope_hours]

RemainingColumn(recs) == [k \in 1..Len(recs) |-> recs[k].remaining_hours]

\* C6: scope_hours is the sum (float additions in list order) of the
\* effective estimates of the root issues, and remaining_hours the sum over
\* exactly the root issues whose status name is not, compared exactly and
\* with case, a member of the done-status set.
C6_WholeScopeRollup ==
    Aggregated =>
        /\ snapshot_data.scope_hours = FSum(EntriesOf(RootIssues(issues), estimates))
        /\ snapshot_data.remaining_hours
              = FSum(EntriesOf(OpenRootIssues(issues), estimates))

\* a root whose status differs from a done status by case only counts as
\* remaining, next to a done root and an issue that is not a root
C6_Witness ==
    /\ Aggregated
    /\ \E k \in 1..Len(issues) :
          /\ issues[k].parent_id = NULL
          /\ issues[k].status_name = "closed"
          /\ EstimateGet(estimates, issues[k].id) > 0
    /\ \E k \in 1..Len(issues) : issues[k].parent_id # NULL
    /\ 0 < snapshot_data.remaining_hours
    /\ snapshot_data.remaining_hours < snapshot_data.scope_hours

\* C7 (as stated): in the whole-scope record and in every per-assignee
\* record completed_hours + remaining_hours = scope_hours, whether the sum
\* is taken as a float addition or without rounding.
C7_Conservation ==
    Aggregated =>
        \A k \in 1..Len(AllRecords) :
            LET r == AllRecords[k]
            IN  \/ FAdd(r.completed_hours, r.remaining_hours) = r.scope_hours
                \/ r.completed_hours + r.remaining_hours = r.scope_hours

\* C7 (amended): in every record completed_hours is the float difference
\* scope_hours - remaining_hours; completed_hours + remaining_hours =
\* scope_hours holds in every record whose difference scope_hours -
\* remaining_hours is computed without rounding.
C7_ConservationAmended ==
    Aggregated =>
        \A k \in 1..Len(AllRecords) :
            LET r == AllRecords[k]
            IN  /\ r.completed_hours = FSub(r.scope_hours, r.remaining_hours)
                /\ ExactDifference(r.scope_hours, r.remaining_hours)
                      => r.completed_hours + r.remaining_hours = r.scope_hours

\* the whole-scope record and a per-assignee record both have done and
\* open hours, and the scope itself is a rounded sum
C7_Witness ==
    /\ Aggregated
    /\ 0 < snapshot_data.remaining_hours
    /\ 0 < snapshot_data.completed_hours
    /\ snapshot_data.scope_hours
          # ExactSum(EntriesOf(RootIssues(issues), estimates))
    /\ \E k \in 1..Len(assignee_snapshots) :
          /\ 0 < assignee_snapshots[k].remaining_hours
          /\ 0 < assignee_snapshots[k].completed_hours

\* C8 (as stated): the scope_hours of the per-assignee records add up to
\* the scope_hours of the whole-scope record of the same invocation, and
\* the remaining_hours likewise, whether the records are added as floats in
\* list order or without rounding.
C8_AssigneePartition ==
    Aggregated =>
        /\ \/ FSum(ScopeColumn(assignee_snapshots)) = snapshot_data.scope_hours
           \/ ExactSum(ScopeColumn(assignee_snapshots)) = snapshot_data.scope_hours
        /\ \/ FSum(RemainingColumn(assignee_snapshots)) = snapshot_data.remaining_hours
           \/ ExactSum(RemainingColumn(assignee_snapshots)) = snapshot_data.remaining_hours

\* no addition of root estimates can round: they are whole multiples of one
\* quantum and their total has at most Prec bits
SumsAreExact ==
    ExactSum(EntriesOf(RootIssues(issues), estimates)) <= Pow2(Prec)

\* C8 (amended): when no addition of root estimates rounds, the
\* scope_hours of the per-assignee records add up to the scope_hours of the
\* whole-scope record of the same invocation, and the remaining_hours
\* likewise.
C8_AssigneePartitionAmended ==
    (Aggregated /\ SumsAreExact) =>
        /\ ExactSum(ScopeColumn(assignee_snapshots)) = snapshot_data.scope_hours
        /\ ExactSum(RemainingColumn(assignee_snapshots)) = snapshot_data.remaining_hours

\* two assignee keys share the scope, one of them with open hours, while
\* an issue that is not a root carries an estimate too
C8_Witness ==
    /\ Aggregated
    /\ SumsAreExact
    /\ Len(assignee_snapshots) = 2
    /\ 0 < snapshot_data.remaining_hours
    /\ snapshot_data.remaining_hours < snapshot_data.scope_hours
    /\ \E k \in 1..Len(issues) :
          issues[k].parent_id # NULL /\ EstimateGet(estimates, issues[k].id) > 0

\* the assignee keys of the root issues
AssigneeKeys(iss) == {RootIssues(iss)[k].assigned_to_id : k \in 1..Len(RootIssues(iss))}

\* the summed scope of the root issues of one key
KeyScope(iss, est, assignee_id) == FSum(EntriesOf(RootIssuesOf(iss, assignee_id), est))

RecordsOf(assignee_id) ==
    {k \in 1..Len(assignee_snapshots) : assignee_snapshots[k].assigned_to_id = assignee_id}

\* C9: an assignee key has a per-assignee record, and then only one, if and
\* only if the summed scope_hours of its root issues is greater than 0; the
\* null key follows the same rule and its record has a null assignee id
\* and a null name.
C9_AssigneeEmission ==
    Aggregated =>
        /\ \A a \in AssigneeKeys(issues) :
              Cardinality(RecordsOf(a)) =
                  IF KeyScope(issues, estimates, a) > 0 THEN 1 ELSE 0
        /\ \A k \in 1..Len(assignee_snapshots) :
              /\ assignee_snapshots[k].assigned_to_id \in AssigneeKeys(issues)
              /\ assignee_snapshots[k].assigned_to_id = NULL
                    => assignee_snapshots[k].assigned_to_name = AssigneeName(NULL)

\* the unassigned roots are emitted under the null key while a key whose
\* roots sum to 0 is not
C9_Witness ==
    /\ Aggregated
    /\ RecordsOf(NULL) # {}
    /\ 10 \in AssigneeKeys(issues)
    /\ RecordsOf(10) = {}

\* C10: a change to the status and the assignee of an issue that is not a
\* root, with the estimates map kept, changes no field of the whole-scope
\* record and no per-assignee record.
C10_ChildrenDoNotCount ==
    [][pc' = "reaggregated" =>
          /\ snapshot_data' = snapshot_data
          /\ assignee_snapshots' = assignee_snapshots]_vars

\* the rollups ran again after a change to a child that carries effort and
\* whose status and assignee differ from those of every root
C10_Witness ==
    /\ pc = "reaggregated"
    /\ snapshot_data.scope_hours > 0
    /\ \E k \in 1..Len(issues) :
          /\ issues[k].parent_id # NULL
          /\ HasIssue(issues, issues[k].parent_id)
          /\ EstimateGet(estimates, issues[k].id) > 0
          /\ \A j \in 1..Len(issues) :
                issues[j].parent_id = NULL =>
                    /\ issues[j].assigned_to_id # issues[k].assigned_to_id
                    /\ issues[j].status_name # issues[k].status_name

\* ----------------------------------------------- claims on the calendar
\* ordinals of the dates d with a <= d < b that fall on Monday to Friday
\* and are not holidays
BusinessDates(a, b) ==
    {o \in Ordinal(a)..(Ordinal(b) - 1) :
        (o + 6) % 7 < 5 /\ o \notin {Ordinal(h) : h \in Holidays}}

BusinessDays(a, b) == Cardinality(BusinessDates(a, b))

EarlierDate(a, b) == IF Ordinal(a) <= Ordinal(b) THEN a ELSE b

IdealDone == calendar.pc = "ideal_done"

WindowStart == strptime(calendar.version_info.start_date)

WindowDue == strptime(calendar.version_info.due_date)

\* both window dates parse and the window holds a business day
ProperWindow ==
    /\ IdealDone
    /\ WindowStart.ok /\ WindowDue.ok
    /\ BusinessDays(WindowStart.date, WindowDue.date) > 0

WindowTotal == BusinessDays(WindowStart.date, WindowDue.date)

WindowElapsed ==
    BusinessDays(WindowStart.date, EarlierDate(calendar.target_date, WindowDue.date))

\* the float expression initial_scope * remaining_days / total
IdealFormula ==
    FDiv(FMul(calendar.initial_scope, Max(0, WindowTotal - WindowElapsed)), WindowTotal)

\* C11 (as stated): in version mode with a proper window the ideal line is
\* initial_scope * max(0, total - elapsed) / total; it equals initial_scope
\* while no business day has elapsed and 0 from the due date on.
C11_IdealLine ==
    ProperWindow =>
        /\ calendar.result = Returned(IdealFormula)
        /\ (BusinessDays(WindowStart.date, calendar.target_date) = 0
               => calendar.result.value = calendar.initial_scope)
        /\ (~DateLess(calendar.target_date, WindowDue.date)
               => calendar.result.value = 0)

\* C11 (amended): the same, but with no business day elapsed the result is
\* initial_scope only when the float product initial_scope * total is exact.
C11_IdealLineAmended ==
    ProperWindow =>
        /\ calendar.result = Returned(IdealFormula)
        /\ ((BusinessDays(WindowStart.date, calendar.target_date) = 0
              /\ Round(calendar.initial_scope * WindowTotal)
                    = calendar.initial_scope * WindowTotal)
               => calendar.result.value = calendar.initial_scope)
        /\ (~DateLess(calendar.target_date, WindowDue.date)
               => calendar.result.value = 0)

\* a window of five business days, two of them elapsed, positive scope
C11_Witness ==
    /\ ProperWindow
    /\ WindowTotal = 5
    /\ WindowElapsed = 2
    /\ calendar.initial_scope > 1
    /\ calendar.result.value > 0
    /\ calendar.result.value < calendar.initial_scope

\* C12: the ideal line is 0, and nothing is raised, when a window date is
\* absent or does not parse, or when [start, due) holds no business day.
C12_DegenerateWindow ==
    IdealDone =>
        ((\/ ~TruthyText(calendar.version_info.start_date)
          \/ ~TruthyText(calendar.version_info.due_date)
          \/ ~WindowStart.ok
          \/ ~WindowDue.ok
          \/ BusinessDays(WindowStart.date, WindowDue.date) <= 0)
            => calendar.result = Returned(0))

\* a due date that does not parse, with a start date that does and a
\* positive scope
C12_Witness ==
    /\ IdealDone
    /\ WindowStart.ok
    /\ TruthyText(calendar.version_info.due_date)
    /\ ~WindowDue.ok
    /\ calendar.initial_scope > 0
    /\ calendar.result = Returned(0)

\* C13: count_business_days(start, end) is the number of dates in
\* [start, end) on Monday to Friday that are not holidays; it is 0 when
\* start >= end, and the end date is never counted.
C13_BusinessDays ==
    calendar.pc = "count_done" =>
        /\ calendar.business_days = BusinessDays(calendar.start_date, calendar.end_date)
        /\ (~DateLess(calendar.start_date, calendar.end_date)
               => calendar.business_days = 0)
        /\ (DateLess(calendar.start_date, calendar.end_date)
               => calendar.business_days
                    = BusinessDays(calendar.start_date, NextDay(calendar.end_date))
                      - BusinessDays(calendar.end_date, NextDay(calendar.end_date)))

\* a week with a holiday and a weekend in it, ending on a business day
C13_Witness ==
    /\ calendar.pc = "count_done"
    /\ calendar.start_date = MkDate(2024, 12, 30)
    /\ calendar.end_date = MkDate(2025, 1, 6)
    /\ calendar.business_days = 4

\* ------------------------------------------------- claims on the store
\* a step that is one invocation of create_snapshot
InvocationStep == log'.runs = log.runs + 1

\* the release name that the arguments stand for
FinalReleaseName(a) ==
    IF TruthyText(a.release_name) THEN a.release_name
    ELSE DefaultReleaseName(a.release_due_date)

\* the arguments name a version, or else a release, that the store lacks
MissingTarget(a) ==
    IF TruthyText(a.version_name)
    THEN \A k \in 1..Len(db.versions) : db.versions[k].name # a.version_name
    ELSE /\ TruthyText(a.release_due_date)
         /\ \A k \in 1..Len(db.releases) :
               ~(/\ db.releases[k].project_id = get_project_id(issues, a.project_identifier)
                 /\ db.releases[k].due_date = a.release_due_date
                 /\ db.releases[k].name = FinalReleaseName(a))

\* C14: an invocation whose version or release is absent from the store
\* raises and writes no whole-scope row, no per-assignee row and no
\* metadata entry.
C14_MissingTarget ==
    [][(InvocationStep /\ MissingTarget(log'.last.args))
          => /\ log'.last.outcome = "raised"
             /\ db'.snapshots = db.snapshots
             /\ db'.assignee_snapshots = db.assignee_snapshots
             /\ db'.meta = db.meta]_vars

\* an invocation for a release name that is absent has raised, after an
\* earlier invocation had written its rows
C14_Witness ==
    /\ pc = "store"
    /\ log.runs = 2
    /\ log.last.outcome = "raised"
    /\ ~TruthyText(log.last.args.version_name)
    /\ MissingTarget(log.last.args)
    /\ Len(db.snapshots) = 1
    /\ DOMAIN db.meta # {}

\* C15: for every target with an invocation that returned, the
\* initial_scope entry is the scope_hours of the first such invocation and
\* the last_snapshot entry is the target date of the latest one.
C15_Metadata ==
    pc = "store" =>
        \A key \in DOMAIN log.baseline :
            /\ MetaKey("initial_scope", key[1], key[2]) \in DOMAIN db.meta
            /\ MetaKey("last_snapshot", key[1], key[2]) \in DOMAIN db.meta
            /\ db.meta[MetaKey("initial_scope", key[1], key[2])]
                  = str_float(log.baseline[key].initial_scope)
            /\ db.meta[MetaKey("last_snapshot", key[1], key[2])]
                  = isoformat(log.baseline[key].last_snapshot)

\* a second invocation for the version has returned another scope than the
\* first one, at another date
C15_Witness ==
    /\ pc = "store"
    /\ log.runs = 2
    /\ log.last.outcome = "returned"
    /\ snapshot_data.target_type = "version"
    /\ Len(db.snapshots) = 2
    /\ db.snapshots[1].target_type = "version"
    /\ snapshot_data.scope_hours # log.baseline[<<"version", 1>>].initial_scope
    /\ db.meta[MetaKey("initial_scope", "version", 1)] = str_float(db.snapshots[1].scope_hours)
    /\ db.meta[MetaKey("last_snapshot", "version", 1)] = snapshot_data.date

\* number of rows of a table that equal row
RowCount(table, row) == Cardinality({k \in 1..Len(table) : table[k] = row})

\* the two tables hold the same rows, each as many times
SameRows(t1, t2) ==
    /\ Len(t1) = Len(t2)
    /\ \A k \in 1..Len(t1) : RowCount(t1, t1[k]) = RowCount(t2, t1[k])

\* C16: an invocation that repeats the previous one, with the issues
\* unchanged, leaves the snapshot and assignee-snapshot tables as they were.
C16_Idempotence ==
    [][(/\ InvocationStep
        /\ log.last.outcome = "returned"
        /\ log'.last.outcome = "returned"
        /\ log'.last.args = log.last.args
        /\ log.last.issues = issues)
          => /\ SameRows(db'.snapshots, db.snapshots)
             /\ SameRows(db'.assignee_snapshots, db.assignee_snapshots)]_vars

\* C17: the store holds at most one per-assignee row per (date,
\* target-type, target-id, assignee id), the null assignee id being one key
\* value like any other.
C17_AssigneeRowsUnique ==
    pc = "store" =>
        \A i, j \in 1..Len(db.assignee_snapshots) :
            (/\ db.assignee_snapshots[i].date = db.assignee_snapshots[j].date
             /\ db.assignee_snapshots[i].target_type = db.assignee_snapshots[j].target_type
             /\ db.assignee_snapshots[i].target_id = db.assignee_snapshots[j].target_id
             /\ db.assignee_snapshots[i].assigned_to_id
                   = db.assignee_snapshots[j].assigned_to_id)
              => i = j

\* the persisted per-assignee rows of the (date, target) of a whole-scope row
PersistedAssigneeRows(row) ==
    SelectSeq(db.assignee_snapshots, LAMBDA r : SnapshotKeyConflict(r, row))

\* C18: for every persisted whole-scope row, the scope_hours of the
\* persisted per-assignee rows of the same (date, target) sum to its
\* scope_hours.
C18_PersistedPartition ==
    pc = "store" =>
        \A k \in 1..Len(db.snapshots) :
            FSum(ScopeColumn(PersistedAssigneeRows(db.snapshots[k])))
              = db.snapshots[k].scope_hours

\* the hour fields of a list of per-assignee records
AssigneeHours(recs) ==
    [k \in 1..Len(recs) |->
        <<recs[k].assigned_to_id, recs[k].scope_hours, recs[k].remaining_hours,
          recs[k].completed_hours>>]

C20_StorageFailure ==
    [][(/\ InvocationStep
        /\ log'.last.outcome = "raised"
        /\ log'.last.error = "OperationalError")
          => db' = db]_vars

\* ------------------------------------------- claims on warnings and links
\* C21 (as stated): every evaluated issue with a non-null raw estimate and
\* at least one direct child with a non-null raw estimate has a warning in
\* the returned warnings list, whether it resolved to the sum of its
\* children or to its own estimate.
C21_WarningBothLevels ==
    Resolved =>
        \A i \in DOMAIN estimates :
            ( /\ RawEstimate(issues, i) # NULL
              /\ \E c \in ChildIds(issues, i) : RawEstimate(issues, c) # NULL )
            => WarningsFor(warnings, i) # {}

\* the issues reachable from a root issue of the glossary through child links
ReachableFromRoots(iss) ==
    LET roots == {i \in IssueIdSet(iss) : IsRootIssue(iss, i)}
    IN  roots \cup UNION {Descendants(iss, i) : i \in roots}

\* C22 (as stated): for every working set, self references and cycles of
\* parent links included, the resolver returns, and the issues with an
\* entry in the estimates map are exactly those reachable from a root
\* issue through child links.
C22_MalformedLinks ==
    Resolved => DOMAIN estimates = ReachableFromRoots(issues)
\* ------------------------------------------------ state of the ideal line
\* the ideal line of one version window: _calculate_ideal_remaining called
\* for one target date after the other, the window and the scope fixed
LineDays == 32

LineStarts == {FirstDay, MkDate(2025, 1, 2)}

LineInputs ==
    [pc : {"line_input"},
     version_info : [start_date : {isoformat(d) : d \in LineStarts},
                     due_date : {isoformat(d) : d \in DaysFrom(FirstDay, LineDays)}],
     target_date : {FirstDay},
     initial_scope : IdealScopes,
     line : {<<>>}]

InitIdealLine ==
    /\ issues = <<>>
    /\ estimates = <<>>
    /\ warnings = <<>>
    /\ snapshot_data = <<>>
    /\ assignee_snapshots = <<>>
    /\ pc = "ideal_line"
    /\ tracker = <<>>
    /\ running = <<>>
    /\ calendar \in LineInputs
    /\ db = <<>>
    /\ log = <<>>

\* the point of the line at date d, appended to the line
IdealLinePoint(d) ==
    [pc |-> "line",
     version_info |-> calendar.version_info,
     target_date |-> d,
     initial_scope |-> calendar.initial_scope,
     line |-> Append(calendar.line,
                 calculate_ideal_remaining(calendar.version_info, d,
                                           calendar.initial_scope).value)]

\* _calculate_ideal_remaining(version_info, target_date, initial_scope) for
\* the first target date
IdealLineFirstDay ==
    /\ calendar.pc = "line_input"
    /\ calendar' = IdealLinePoint(calendar.target_date)
    /\ UNCHANGED <<issues, estimates, warnings, snapshot_data, assignee_snapshots,
                   pc, db, log,
                   tracker, running>>

\* ... and for the day after the last target date
IdealLineNextDay ==
    /\ calendar.pc = "line"
    /\ Len(calendar.line) <= LineDays
    /\ calendar' = IdealLinePoint(NextDay(calendar.target_date))
    /\ UNCHANGED <<issues, estimates, warnings, snapshot_data, assignee_snapshots,
                   pc, db, log,
                   tracker, running>>

NextIdealLine == IdealLineFirstDay \/ IdealLineNextDay

SpecIdealLine == InitIdealLine /\ [][NextIdealLine]_vars

\* ----------------------------------------------- claims on the ideal line
OnLine == calendar.pc = "line"

\* each point of the line is at most the point of the day before
LineNonIncreasing ==
    \A k \in 2..Len(calendar.line) : calendar.line[k] <= calendar.line[k - 1]

\* the value of the line with no business day elapsed: the float
\* expression scope * total / total, or 0 without a proper window
LineTop ==
    IF WindowStart.ok /\ WindowDue.ok
          /\ BusinessDays(WindowStart.date, WindowDue.date) > 0
    THEN FDiv(FMul(calendar.initial_scope, WindowTotal), WindowTotal)
    ELSE 0

\* C26 (as stated): for a fixed window and scope the ideal remaining is
\* non-increasing in the target date and lies between 0 and the scope.
C26_IdealShape ==
    OnLine =>
        /\ LineNonIncreasing
        /\ \A k \in 1..Len(calendar.line) :
              calendar.line[k] >= 0 /\ calendar.line[k] <= calendar.initial_scope

\* C26 (amended): non-increasing in the target date, and between 0 and the
\* float value scope * total / total, which is the scope when the float
\* product scope * total is exact.
C26_IdealShapeAmended ==
    OnLine =>
        LET top == LineTop
            exact == /\ WindowStart.ok /\ WindowDue.ok
                     /\ Round(calendar.initial_scope * WindowTotal)
                           = calendar.initial_scope * WindowTotal
        IN  /\ LineNonIncreasing
            /\ \A k \in 1..Len(calendar.line) :
                  /\ calendar.line[k] >= 0
                  /\ calendar.line[k] <= top
                  /\ (exact => calendar.line[k] <= calendar.initial_scope)

\* a line that starts at the scope, falls in steps and has reached 0
C26_Witness ==
    /\ OnLine
    /\ Len(calendar.line) > 3
    /\ calendar.line[1] = calendar.initial_scope
    /\ \E k \in 2..Len(calendar.line) :
          calendar.line[k] < calendar.line[1] /\ calendar.line[k] > 0
    /\ calendar.line[Len(calendar.line)] = 0
\* ------------------------------------------- state of a release with children
\* issue rows of project 1: rows 1 and 2 have no parent, row 3 is a child
\* of row 1; row 2 is due with the release or after it
LateDay == MkDate(2025, 1, 8)

MkReleaseIssue(i, e, a, due) ==
    [id |-> i, project_id |-> 1, version_id |-> 1,
     parent_id |-> IF i <= 2 THEN NULL ELSE 1,
     estimated_hours |-> e,
     status_name |-> IF i = 2 THEN "Closed" ELSE "Open",
     assigned_to_id |-> a, assigned_to_name |-> AssigneeName(a),
     due_date |-> isoformat(due)]

ReleaseIssueRows ==
    {<<MkReleaseIssue(1, e1, a1, FirstDay), MkReleaseIssue(2, e2, 10, d2),
       MkReleaseIssue(3, e3, NULL, FirstDay)>> :
        e1 \in {NULL, 0, 1}, a1 \in AssigneeIds, e2 \in {NULL, 1},
        d2 \in {FirstDay, LateDay}, e3 \in {NULL, 1, 2}}

InitRelease ==
    /\ issues \in ReleaseIssueRows
    /\ estimates = <<>>
    /\ warnings = <<>>
    /\ snapshot_data = <<>>
    /\ assignee_snapshots = <<>>
    /\ pc = "store"
    /\ tracker = <<>>
    /\ running = <<>>
    /\ calendar = [pc |-> "idle"]
    /\ db = InitialDb
    /\ log = [runs |-> 0, syncs |-> 0, last |-> Invoked(<<>>, "none", "", <<>>),
              baseline |-> <<>>]

NextRelease == CreateSnapshot

SpecRelease == InitRelease /\ [][NextRelease]_vars

\* ------------------------------------------------ claims on release mode
\* the last invocation was in release mode and returned
ReleaseReturned ==
    /\ pc = "store"
    /\ log.last.outcome = "returned"
    /\ ~TruthyText(log.last.args.version_name)

\* the rows of the release: no parent, due on or before the release date
ReleaseRoots ==
    {i \in IssueIdSet(issues) :
        /\ GetIssue(issues, i).parent_id = NULL
        /\ GetIssue(issues, i).project_id
              = get_project_id(issues, log.last.args.project_identifier)
        /\ GetIssue(issues, i).due_date.fields
              \in {isoformat(d).fields : d \in DaysFrom(FirstDay, MaxDays)}
        /\ ~DateLess(strptime(log.last.args.release_due_date).date,
                     strptime(GetIssue(issues, i).due_date).date)}

\* C27: in release mode the working set holds only issues with a null
\* parent; each resolves to its own raw estimate (0 when null), no warning
\* is emitted, and the scope is the sum of these values: a root with a null
\* estimate adds 0 even when its children in the store carry estimates.
C27_ReleaseNoHierarchy ==
    ReleaseReturned =>
        /\ DOMAIN estimates = ReleaseRoots
        /\ \A i \in DOMAIN estimates : estimates[i] = RawOrZero(issues, i)
        /\ warnings = <<>>
        /\ LET roots == SelectSeq(issues, LAMBDA r : r.id \in ReleaseRoots)
           IN  snapshot_data.scope_hours
                   = FSum([k \in 1..Len(roots) |-> RawOrZero(issues, roots[k].id)])

\* a root with a null estimate whose child in the store has an estimate
\* resolves to 0, next to a root that counts
C27_Witness ==
    /\ ReleaseReturned
    /\ \E i \in DOMAIN estimates :
          /\ RawEstimate(issues, i) = NULL
          /\ estimates[i] = 0
          /\ \E c \in ChildIds(issues, i) : RawEstimate(issues, c) = 2
    /\ snapshot_data.scope_hours = 1
\* ------------------------------------- claims on the ideal value persisted
\* the last invocation was in version mode and returned
VersionReturned ==
    /\ pc = "store"
    /\ log.last.outcome = "returned"
    /\ TruthyText(log.last.args.version_name)

\* the row of the snapshots table with the key of the last invocation
PersistedSnapshot ==
    SelectSeq(db.snapshots, LAMBDA r : /\ r.date = snapshot_data.date
                                       /\ r.target_type = snapshot_data.target_type
                                       /\ r.target_id = snapshot_data.target_id)

\* the ideal line at the target date of the last invocation for a scope
IdealFor(scope_hours) ==
    calculate_ideal_remaining(get_version_info(db, snapshot_data.target_id),
                              log.last.args.target_date, scope_hours).value

\* C28: the ideal_remaining_hours that a version-mode invocation persists
\* is the ideal line for the scope_hours of the same invocation, whatever
\* the initial_scope entry of the metadata holds: stores that differ only
\* in that entry persist the same value.
C28_IdealFromOwnScope ==
    VersionReturned =>
        /\ Len(PersistedSnapshot) = 1
        /\ PersistedSnapshot[1].scope_hours = snapshot_data.scope_hours
        /\ PersistedSnapshot[1].ideal_remaining_hours
              = IdealFor(snapshot_data.scope_hours)

\* the metadata holds the scope of a first invocation, the scope of this
\* one is another, and the ideal lines of the two scopes differ
C28_Witness ==
    /\ VersionReturned
    /\ MetaKey("initial_scope", "version", snapshot_data.target_id) \in DOMAIN db.meta
    /\ LET recorded == db.meta[MetaKey("initial_scope", "version",
                                       snapshot_data.target_id)].fields[1]
       IN  /\ recorded # snapshot_data.scope_hours
           /\ IdealFor(recorded) # IdealFor(snapshot_data.scope_hours)
           /\ PersistedSnapshot[1].ideal_remaining_hours > 0
\* ------------------------------------------------------ the sync service
\* a timestamp of the tracker, "2024-12-30T09:00:00Z": the fields of the
\* date, then those of the time
Timestamp(d) == Text(<<d.year, d.month, d.day, 9, 0, 0>>)

DecimalDigits == <<"1", "2", "3", "4", "5", "6", "7", "8", "9">>

\* str(n) of a one-digit number
str_int(n) == Text(<<DecimalDigits[n]>>)

\* a version record of the tracker
TrackerVersion(id, name, due_date) ==
    [id |-> id, name |-> name, created_on |-> Timestamp(FirstDay),
     due_date |-> due_date]

\* an issue record of the tracker: project.id, fixed_version.id, parent.id,
\* status.name and assigned_to.id are the nested keys that _save_issue reads
TrackerIssue(i, v, e) ==
    [id |-> i, project_id |-> 1, fixed_version_id |-> v, parent_id |-> NULL,
     status_name |-> "Open", estimated_hours |-> e,
     assigned_to_id |-> NULL, due_date |-> NoText, journals |-> <<>>]

\* INSERT OR REPLACE on a table whose primary key is the integer id
upsert_by_id(rows, new) ==
    SelectSeq(rows, LAMBDA r : r.id < new.id) \o <<new>>
        \o SelectSeq(rows, LAMBDA r : r.id > new.id)

\* IssueModel.upsert_issue
upsert_issue(iss, issue_record) == upsert_by_id(iss, issue_record)

\* _save_issue
save_issue(iss, issue_data) ==
    upsert_issue(iss, [id |-> issue_data.id,
                       project_id |-> issue_data.project_id,
                       version_id |-> issue_data.fixed_version_id,
                       parent_id |-> issue_data.parent_id,
                       estimated_hours |-> issue_data.estimated_hours,
                       status_name |-> issue_data.status_name,
                       assigned_to_id |-> issue_data.assigned_to_id,
                       assigned_to_name |-> AssigneeName(issue_data.assigned_to_id),
                       due_date |-> issue_data.due_date])

\* _save_version: start_date is the created_on of the tracker record
save_version(d, version_data, project_id) ==
    [d EXCEPT !.versions =
        upsert_by_id(@, [id |-> version_data.id,
                         project_id |-> project_id,
                         name |-> version_data.name,
                         start_date |-> version_data.created_on,
                         due_date |-> version_data.due_date])]

\* _validate_and_get_version: the first version whose name, or whose id
\* written as a string, is version_name
validate_and_get_version(versions, version_name) ==
    LET found == SelectSeq(versions, LAMBDA v : \/ v.name = version_name
                                                \/ str_int(v.id) = version_name)
    IN  IF found = <<>> THEN Raised("RedmineAPIError") ELSE Returned(found[1])

\* limit = 100
limit == 100

Min(a, b) == IF a <= b THEN a ELSE b

\* RedmineClient.get_issues answered by a tracker that holds the records
\* tr.issues: the page at offset, and the total_count that it reports
get_issues(tr, project_id, version_id, offset) ==
    LET matching == SelectSeq(tr.issues, LAMBDA i : /\ i.project_id = project_id
                                                    /\ i.fixed_version_id = version_id)
    IN  [issues |-> SubSeq(matching, offset + 1, Min(offset + limit, Len(matching))),
         total_count |-> Len(matching)]

\* the locals of _sync_issues_by_version before its loop
SyncStart(iss) ==
    [pc |-> "request", offset |-> 0, issues_count |-> 0, journals_count |-> 0,
     issues |-> iss, requested |-> <<>>]

\* for issue in issues: _save_issue(issue), issues_count += 1, from the
\* k-th issue of the page on (the test on the count makes the evaluation
\* of each pass precede the next one)
RECURSIVE SaveFrom(_, _, _)
SaveFrom(st, page, k) ==
    IF k > Len(page) \/ st.issues_count < 0 THEN st
    ELSE SaveFrom([st EXCEPT !.issues = save_issue(@, page[k]),
                             !.issues_count = @ + 1],
                  page, k + 1)

SavePage(st, page) == SaveFrom(st, page, 1)

\* variant: the loop goes on until a page is empty
sync_page_until_empty(st, response) ==
    LET asked == [st EXCEPT !.requested = Append(@, st.offset)]
    IN  IF response.issues = <<>> THEN [asked EXCEPT !.pc = "returned"]
        ELSE [SavePage(asked, response.issues) EXCEPT !.offset = @ + limit]

\* one pass of the loop of _sync_issues_by_version, given the response
sync_page(st, response) ==
    LET asked == [st EXCEPT !.requested = Append(@, st.offset)]
    IN  IF response.issues = <<>> THEN [asked EXCEPT !.pc = "returned"]
        ELSE LET saved == SavePage(asked, response.issues)
                 offset == st.offset + limit
             IN  [saved EXCEPT !.offset = offset,
                               !.pc = IF offset >= response.total_count
                                      THEN "returned" ELSE "request"]

\* _sync_issues_by_version against the tracker tr
RECURSIVE sync_pages(_, _, _, _)
sync_pages(st, tr, project_id, version_id) ==
    IF st.pc = "returned" THEN st
    ELSE sync_pages(sync_page(st, get_issues(tr, project_id, version_id, st.offset)),
                    tr, project_id, version_id)

sync_issues_by_version(iss, tr, project_id, version_id) ==
    sync_pages(SyncStart(iss), tr, project_id, version_id)

\* ------------------------------------------- state of a sync of versions
MaxVersionSyncs == 2

\* the tracker: version 1 named "v1", version 2 named "v2" or "1", each
\* with or without a due date, and one issue in each version
TrackerStates ==
    {[versions |-> <<TrackerVersion(1, Text(<<"v1">>), d1), TrackerVersion(2, n2, d2)>>,
      issues |-> <<TrackerIssue(1, 1, e1), TrackerIssue(2, 2, e2)>>] :
        n2 \in {Text(<<"v2">>), Text(<<"1">>)},
        d1 \in {NoText, isoformat(WindowDueDay)},
        d2 \in {NoText, isoformat(WindowDueDay)},
        e1 \in StoreEstimates, e2 \in StoreEstimates}

\* version arguments of sync_project_data: a name, the id of a version as a
\* string, and a name that the tracker does not have
SyncArguments == {Text(<<"v1">>), Text(<<"1">>), Text(<<"2">>), Text(<<"v9">>)}

\* the store after initialize_schema
EmptyDb ==
    [versions |-> <<>>, releases |-> <<>>, issue_journals |-> <<>>,
     snapshots |-> <<>>, assignee_snapshots |-> <<>>, meta |-> <<>>]

\* what the last sync_project_data was given and how it ended; runs is the
\* number of snapshot invocations made before it
Synced(version_name, outcome, target_id, runs) ==
    [version_name |-> version_name, outcome |-> outcome, target_id |-> target_id,
     runs |-> runs]

InitSync ==
    /\ issues = <<>>
    /\ estimates = <<>>
    /\ warnings = <<>>
    /\ snapshot_data = <<>>
    /\ assignee_snapshots = <<>>
    /\ pc = "sync"
    /\ calendar = [pc |-> "idle"]
    /\ db = EmptyDb
    /\ log = [runs |-> 0, syncs |-> 0, last |-> Invoked(<<>>, "none", "", <<>>),
              baseline |-> <<>>, sync |-> Synced(NoText, "none", NULL, 0)]
    /\ tracker \in TrackerStates
    /\ running = <<>>

\* sync_project_data(project, version_name, full_sync=True) in version mode
SyncProjectData ==
    /\ pc = "sync"
    /\ log.syncs < MaxVersionSyncs
    /\ \E version_name \in SyncArguments :
          LET target_version == validate_and_get_version(tracker.versions, version_name)
              synced == sync_issues_by_version(issues, tracker, 1,
                                               target_version.value.id)
          IN  IF target_version.raised
              THEN /\ log' = [log EXCEPT
                                 !.syncs = @ + 1,
                                 !.sync = Synced(version_name, "raised", NULL, log.runs)]
                   /\ UNCHANGED <<db, issues>>
              ELSE /\ db' = save_version(db, target_version.value, 1)
                   /\ issues' = synced.issues
                   /\ log' = [log EXCEPT
                                 !.syncs = @ + 1,
                                 !.sync = Synced(version_name, "returned",
                                                 target_version.value.id, log.runs)]
    /\ UNCHANGED <<estimates, warnings, snapshot_data, assignee_snapshots, pc,
                   calendar, tracker, running>>

\* create_snapshot with the version argument that the last sync was given
CreateSnapshotSynced ==
    /\ pc = "sync"
    /\ log.runs < MaxRuns
    /\ log.sync.outcome = "returned"
    /\ \E t \in TargetDates :
          create_snapshot(Args(DigitIdentifier(1), log.sync.version_name,
                               NoText, NoText, t))
    /\ UNCHANGED <<issues, pc, calendar, tracker, running>>

NextSync == SyncProjectData \/ CreateSnapshotSynced

SpecSync == InitSync /\ [][NextSync]_vars

\* ----------------------------------------- claims on sync, then snapshot
\* the record of the tracker for the stored version row v
TrackerRecord(v) == SelectSeq(tracker.versions, LAMBDA r : r.id = v.id)[1]

\* the last snapshot invocation returned, for the stored version row v
SnapshotOf(v) ==
    /\ log.last.outcome = "returned"
    /\ snapshot_data.target_type = "version"
    /\ snapshot_data.target_id = v.id

\* C29 (as stated): a version row stored by the sync from a tracker record
\* with a creation timestamp and a due date has a start_date and a due_date
\* that both parse as dates, and a version-mode snapshot of it with a
\* positive scope, taken before the due date, has a positive
\* ideal_remaining_hours.
C29_SyncedWindow ==
    pc = "sync" =>
        \A k \in 1..Len(db.versions) :
            LET v == db.versions[k]
            IN  (TruthyText(TrackerRecord(v).created_on)
                   /\ TruthyText(TrackerRecord(v).due_date))
                => /\ strptime(v.start_date).ok
                   /\ strptime(v.due_date).ok
                   /\ ((SnapshotOf(v)
                          /\ snapshot_data.scope_hours > 0
                          /\ DateLess(log.last.args.target_date,
                                      strptime(v.due_date).date))
                       => snapshot_data.ideal_remaining_hours > 0)

\* C30 (as stated): a create_snapshot that follows a sync_project_data
\* which accepted and stored its version argument, and is given the same
\* argument, resolves it to the version that the sync stored.
C30_SyncedTargetResolves ==
    (/\ pc = "sync"
     /\ log.sync.outcome = "returned"
     /\ log.runs > log.sync.runs
     /\ log.last.args.version_name = log.sync.version_name)
    => /\ log.last.outcome = "returned"
       /\ snapshot_data.target_id = log.sync.target_id
\* ------------------------------------------------- state of the paging
\* _sync_issues_by_version pass by pass, against a tracker that reports
\* the same total_count with every page and answers each request with a
\* page of its choice
MaxTotalPages == 2

TotalCounts == {k * limit + r : k \in 0..MaxTotalPages, r \in {0, 1, limit - 1}}

\* the pages that the tracker may answer at offset: no record, one record
\* (the next one, or the first one once more), or limit records
TrackerPages(offset) ==
    {<<>>, <<TrackerIssue(offset + 1, 1, 0)>>, <<TrackerIssue(1, 1, 1)>>,
     [k \in 1..limit |-> TrackerIssue(offset + k, 1, 0)]}

InitPaging ==
    /\ issues = <<>>
    /\ estimates = <<>>
    /\ warnings = <<>>
    /\ snapshot_data = <<>>
    /\ assignee_snapshots = <<>>
    /\ pc = "paging"
    /\ calendar = [pc |-> "idle"]
    /\ db = EmptyDb
    /\ log = <<>>
    /\ tracker \in [total_count : TotalCounts, delivered : {<<>>}, page_sizes : {<<>>}]
    /\ running = [SyncStart(<<>>) EXCEPT !.issues = <<>>]

\* one pass of the loop: the request, the response, the saves of its issues
SyncPage ==
    /\ pc = "paging"
    /\ running.pc = "request"
    /\ Len(running.requested) <= MaxTotalPages + 1
    /\ \E page \in TrackerPages(running.offset) :
          LET st == sync_page([running EXCEPT !.issues = issues],
                              [issues |-> page, total_count |-> tracker.total_count])
          IN  /\ issues' = st.issues
              /\ running' = [st EXCEPT !.issues = <<>>]
              /\ tracker' = [tracker EXCEPT
                                !.delivered = @ \o [k \in 1..Len(page) |-> page[k].id],
                                !.page_sizes = Append(@, Len(page))]
    /\ UNCHANGED <<estimates, warnings, snapshot_data, assignee_snapshots, pc,
                   calendar, db, log>>

NextPaging == SyncPage

\* the loop is not interrupted: a pass that can be made is made
SpecPaging == InitPaging /\ [][NextPaging]_vars /\ WF_vars(NextPaging)

\* ---------------------------------------------------- claims on paging
Paging == pc = "paging"

PagesRequested == Len(running.requested)

\* the requests were made at the offsets 0, limit, 2 * limit, ...
OffsetsInOrder ==
    \A k \in 1..PagesRequested : running.requested[k] = (k - 1) * limit

\* every request but the first followed a page that was not empty and was
\* made at an offset below total_count
NoRequestAfterStop ==
    \A k \in 2..PagesRequested :
        /\ tracker.page_sizes[k - 1] > 0
        /\ running.requested[k] < tracker.total_count

\* the loop has returned exactly when the last page was empty or the next
\* offset has reached total_count
StoppedWhenDue ==
    PagesRequested > 0 =>
        (running.pc = "returned"
            <=> \/ tracker.page_sizes[PagesRequested] = 0
                \/ PagesRequested * limit >= tracker.total_count)

\* the count returned is the number of records received, and the issues
\* table holds a row for each of them
EveryRecordSaved ==
    /\ running.issues_count = Len(tracker.delivered)
    /\ IssueIdSet(issues) = {tracker.delivered[k] : k \in 1..Len(tracker.delivered)}
    /\ \A k \in 1..Len(issues) : issues[k].version_id = 1

PagingSafe ==
    Paging => /\ OffsetsInOrder
              /\ NoRequestAfterStop
              /\ StoppedWhenDue
              /\ EveryRecordSaved

\* C25: against a tracker that reports a constant total_count the loop
\* requests the offsets 0, 100, 200, ..., stops at the first empty page or
\* as soon as the next offset reaches total_count, and returns; the count
\* it returns is the number of records received over all pages, each of
\* them saved.
C25_SyncPaging == []PagingSafe /\ <>(Paging /\ running.pc = "returned")

\* three pages were requested, the last one brought a record once more,
\* and the loop returned with one more issue counted than rows stored
C25_Witness ==
    /\ Paging
    /\ running.pc = "returned"
    /\ running.requested = <<0, limit, 2 * limit>>
    /\ tracker.page_sizes = <<limit, limit, 1>>
    /\ running.issues_count = 2 * limit + 1
    /\ Len(issues) = 2 * limit
\* ------------------------------------------------ state of the pipeline
\* create_snapshot stage by stage: two invocations, each with its own
\* locals, share the store; every read and every write of the store is one
\* step, and a sync may change an issue row between two steps
Invocations == {1, 2}

\* the arguments: the version, the release, and a version that is missing
PipelineArgs ==
    {Args(DigitIdentifier(1), Text(<<"v1">>), NoText, NoText, FirstDay),
     Args(NameIdentifier, NoText, isoformat(WindowDueDay), NoText, FirstDay),
     Args(DigitIdentifier(1), Text(<<"v9">>), NoText, NoText, FirstDay)}

\* the locals of create_snapshot at its start
Started(a) ==
    [pc |-> "determine_target", args |-> a, target |-> Target(NULL, "none"),
     issues |-> <<>>, issue_estimates |-> <<>>, warnings |-> <<>>,
     snapshot_data |-> <<>>, assignee_snapshots |-> <<>>,
     writes |-> <<>>, written |-> 0]

InitPipeline ==
    /\ issues \in StoreIssueRows
    /\ estimates = <<>>
    /\ warnings = <<>>
    /\ snapshot_data = <<>>
    /\ assignee_snapshots = <<>>
    /\ pc = "pipeline"
    /\ calendar = [pc |-> "idle"]
    /\ db = InitialDb
    /\ log = [syncs |-> 0, last_writer |-> 0]
    /\ tracker = <<>>
    /\ running \in [Invocations -> {Started(a) : a \in PipelineArgs}]

\* lines 43-52: target_id, target_type = self._determine_target(...)
DetermineTarget ==
    /\ pc = "pipeline"
    /\ \E p \in Invocations :
          LET r == running[p]
              target == determine_target(db, issues, r.args)
          IN  /\ r.pc = "determine_target"
              /\ running' = [running EXCEPT ![p] =
                                IF target.raised THEN [r EXCEPT !.pc = "raised"]
                                ELSE [r EXCEPT !.pc = "get_target_issues",
                                               !.target = target.value]]
    /\ UNCHANGED <<issues, estimates, warnings, snapshot_data, assignee_snapshots,
                   pc, calendar, db, log, tracker>>

\* lines 54-63: issues = self._get_target_issues(...)
GetTargetIssues ==
    /\ pc = "pipeline"
    /\ \E p \in Invocations :
          LET r == running[p]
          IN  /\ r.pc = "get_target_issues"
              /\ running' = [running EXCEPT ![p] =
                                [r EXCEPT !.pc = "calculate_effective_estimates",
                                          !.issues = get_target_issues(db, issues,
                                                         r.target, r.args)]]
    /\ UNCHANGED <<issues, estimates, warnings, snapshot_data, assignee_snapshots,
                   pc, calendar, db, log, tracker>>

\* line 68: issue_estimates = self._calculate_effective_estimates(...)
CalculateEffectiveEstimates ==
    /\ pc = "pipeline"
    /\ \E p \in Invocations :
          LET r == running[p]
              st == calculate_effective_estimates(r.issues, <<>>)
          IN  /\ r.pc = "calculate_effective_estimates"
              /\ running' = [running EXCEPT ![p] =
                                [r EXCEPT !.pc = "calculate_snapshot_metrics",
                                          !.issue_estimates = st.estimates,
                                          !.warnings = st.warnings]]
    /\ UNCHANGED <<issues, estimates, warnings, snapshot_data, assignee_snapshots,
                   pc, calendar, db, log, tracker>>

\* lines 165-167: snapshot_data = self._calculate_snapshot_metrics(...),
\* which reads the issue rows of the store once more
CalculateSnapshotMetrics ==
    /\ pc = "pipeline"
    /\ \E p \in Invocations :
          LET r == running[p]
          IN  /\ r.pc = "calculate_snapshot_metrics"
              /\ running' = [running EXCEPT ![p] =
                                [r EXCEPT !.pc = "calculate_assignee_snapshots",
                                          !.snapshot_data =
                                              snapshot_metrics_record(db, issues,
                                                  r.target, r.args.target_date,
                                                  r.issue_estimates)]]
    /\ UNCHANGED <<issues, estimates, warnings, snapshot_data, assignee_snapshots,
                   pc, calendar, db, log, tracker>>

\* lines 172-174: assignee_snapshots = self._calculate_assignee_snapshots(...)
CalculateAssigneeSnapshots ==
    /\ pc = "pipeline"
    /\ \E p \in Invocations :
          LET r == running[p]
              asg == assignee_snapshot_records(r.target, r.args.target_date,
                                               r.issues, r.issue_estimates)
          IN  /\ r.pc = "calculate_assignee_snapshots"
              /\ running' = [running EXCEPT ![p] =
                                [r EXCEPT !.pc = "save",
                                          !.assignee_snapshots = asg,
                                          !.writes = SnapshotWrites(r.snapshot_data, asg)]]
    /\ UNCHANGED <<issues, estimates, warnings, snapshot_data, assignee_snapshots,
                   pc, calendar, db, log, tracker>>

\* the next storage write of invocation p, committed on its own
Save(p) ==
    LET r == running[p]
    IN  /\ db' = Write(db, r.writes[r.written + 1], r.args.target_date)
        /\ running' = [running EXCEPT ![p] =
                          [r EXCEPT !.written = @ + 1,
                                    !.pc = IF r.written + 1 = Len(r.writes)
                                           THEN "returned" ELSE "save"]]
        /\ log' = [log EXCEPT !.last_writer = p]

\* line 179: self.snapshot_model.save_snapshot(snapshot_data)
SaveSnapshot ==
    /\ pc = "pipeline"
    /\ \E p \in Invocations :
          /\ running[p].pc = "save"
          /\ running[p].written = 0
          /\ Save(p)
    /\ UNCHANGED <<issues, estimates, warnings, snapshot_data, assignee_snapshots,
                   pc, calendar, tracker>>

\* lines 180-181: self.snapshot_model.save_assignee_snapshot(assignee_snapshot)
SaveAssigneeSnapshot ==
    /\ pc = "pipeline"
    /\ \E p \in Invocations :
          /\ running[p].pc = "save"
          /\ running[p].written > 0
          /\ running[p].written < Len(running[p].writes) - 1
          /\ Save(p)
    /\ UNCHANGED <<issues, estimates, warnings, snapshot_data, assignee_snapshots,
                   pc, calendar, tracker>>

\* lines 184-188: self._update_metadata(...), then the return
UpdateMetadata ==
    /\ pc = "pipeline"
    /\ \E p \in Invocations :
          /\ running[p].pc = "save"
          /\ running[p].written = Len(running[p].writes) - 1
          /\ Save(p)
    /\ UNCHANGED <<issues, estimates, warnings, snapshot_data, assignee_snapshots,
                   pc, calendar, tracker>>

NextPipeline ==
    \/ DetermineTarget
    \/ GetTargetIssues
    \/ CalculateEffectiveEstimates
    \/ CalculateSnapshotMetrics
    \/ CalculateAssigneeSnapshots
    \/ SaveSnapshot
    \/ SaveAssigneeSnapshot
    \/ UpdateMetadata
    \/ SyncIssue

SpecPipeline == InitPipeline /\ [][NextPipeline]_vars
\* ------------------------------------------------ claims on the pipeline
Pipelined == pc = "pipeline"

\* the tables of the writes that invocation p has made, in their order
TablesWritten(p) ==
    [k \in 1..running[p].written |-> running[p].writes[k].table]

HasWritten(p, table) == \E k \in 1..running[p].written : TablesWritten(p)[k] = table

\* the rows of a table with the key (date, target type, target id) of row
KeyRows(table, row) ==
    SelectSeq(table, LAMBDA r : /\ r.date = row.date
                                /\ r.target_type = row.target_type
                                /\ r.target_id = row.target_id)

BothReturnedOnOneKey ==
    /\ Pipelined
    /\ \A p \in Invocations : running[p].pc = "returned"
    /\ \A p, q \in Invocations : running[p].target = running[q].target

\* C23 (as stated): when two invocations for one key have interleaved and
\* both have returned, the whole-scope row and the per-assignee rows
\* persisted for the key are those that the invocation that wrote last
\* computed.
C23_LastWriterWins ==
    BothReturnedOnOneKey =>
        LET r == running[log.last_writer]
            persisted == KeyRows(db.assignee_snapshots, r.snapshot_data)
        IN  /\ KeyRows(db.snapshots, r.snapshot_data) = <<r.snapshot_data>>
            /\ Len(persisted) = Len(r.assignee_snapshots)
            /\ \A k \in 1..Len(persisted) :
                  \E j \in 1..Len(r.assignee_snapshots) :
                      persisted[k] = r.assignee_snapshots[j]

\* C24: an invocation writes nothing before its target is resolved, its
\* issues are fetched, its estimates are resolved and both rollups are
\* computed; it saves the whole-scope row before any per-assignee row,
\* updates the metadata only after all its per-assignee rows, and returns
\* only after the metadata update; the store holds no row that no
\* invocation has written.
C24_PipelineOrder ==
    Pipelined =>
        /\ \A p \in Invocations :
              LET r == running[p]
                  t == TablesWritten(p)
              IN  /\ (r.pc \notin {"save", "returned"} => r.written = 0)
                  /\ (r.written > 0 =>
                        /\ r.target.target_type # "none"
                        /\ r.writes = SnapshotWrites(r.snapshot_data,
                                                     r.assignee_snapshots))
                  /\ \A k \in 1..Len(t) :
                        /\ (t[k] = "assignee_snapshots" =>
                               \E j \in 1..(k - 1) : t[j] = "snapshots")
                        /\ (t[k] = "meta" =>
                               /\ \E j \in 1..(k - 1) : t[j] = "snapshots"
                               /\ Cardinality({j \in 1..(k - 1) :
                                                  t[j] = "assignee_snapshots"})
                                     = Len(r.assignee_snapshots))
                  /\ (r.pc = "returned" => HasWritten(p, "meta"))
        /\ (db.snapshots # <<>> => \E p \in Invocations : HasWritten(p, "snapshots"))
        /\ (db.assignee_snapshots # <<>> =>
               \E p \in Invocations : HasWritten(p, "assignee_snapshots"))
        /\ (db.meta # <<>> => \E p \in Invocations : HasWritten(p, "meta"))

\* one invocation has returned after saving two per-assignee rows while
\* the other one has saved its whole-scope row only
C24_Witness ==
    /\ Pipelined
    /\ \E p, q \in Invocations :
          /\ running[p].pc = "returned"
          /\ Len(running[p].assignee_snapshots) = 2
          /\ TablesWritten(p) = <<"snapshots", "assignee_snapshots",
                                  "assignee_snapshots", "meta">>
          /\ running[q].pc = "save"
          /\ TablesWritten(q) = <<"snapshots">>
====
